---------------------------- MODULE Spec2Model ----------------------------
(***************************************************************************)
(* fagents-mcp: agent-scoped configuration, API-key authentication and the *)
(* audited gate_email read path (src/src/config.ts, src/src/auth.ts,       *)
(* src/src/server.ts).                                                     *)
(*                                                                         *)
(* Representation of JavaScript values                                     *)
(*   string      a sequence of tokens; a token is a TLA+ string that       *)
(*               stands for one character ("a", "0") or for an opaque run  *)
(*               of characters nobody inspects ("smtp.biz.com").  The      *)
(*               empty string is << >>.                                    *)
(*   undefined   the sequence <<"undefined">>, null <<"null">>: no string  *)
(*               of the model holds these tokens.                          *)
(*   object      a function whose DOMAIN is the set of own keys.           *)
(*   number      a record [nan |-> BOOLEAN, n |-> Int].                    *)
(*   throw e     the sequence <<"throw">> \o message, or for functions     *)
(*               returning objects a record with threw |-> TRUE.           *)
(***************************************************************************)
EXTENDS Integers, Sequences, FiniteSets, TLC

VARIABLES
    file,          \* agents.json on disk (cwd of the process)
    procEnv,       \* process.env
    agentsConfig,  \* config.ts: let agentsConfig (the memoized load)
    boot,          \* server.ts main(): "init" | "listening" | "failed"
    store,         \* AsyncLocalStorage store of each async context
    req,           \* the in-flight POST /mcp requests
    api            \* the last direct call of an exported function and its result

vars == <<file, procEnv, agentsConfig, boot, store, req, api>>

-----------------------------------------------------------------------------
(* Bounds *)

\* Number of POST /mcp requests that may be in flight together.
NReq == 2
\* Longest API key (in characters) enumerated for credentials and headers.
MaxKeyLen == 2
\* Fragments a fetched body is made of, at most
MaxParts == 3
\* Longest port setting (in characters) enumerated
MaxPortLen == 5
\* Most messages in a mailbox; limit and offset range one beyond it
MaxMessages == 5

-----------------------------------------------------------------------------
(* JavaScript values *)

undefined == <<"undefined">>
null == <<"null">>

\* ToBoolean of a value of type string | undefined | null.
Truthy(v) == v # undefined /\ v # null /\ v # <<>>

\* a ?? b
Nullish(a, b) == IF a = undefined \/ a = null THEN b ELSE a

\* a || b on string | undefined
OrElse(a, b) == IF Truthy(a) THEN a ELSE b

\* All strings over the characters S of length at most n.
StrUpTo(S, n) == UNION {[1..k -> S] : k \in 0..n}

\* obj[key] of a plain object: undefined when key is not an own key.
Get(obj, key) == IF key \in DOMAIN obj THEN obj[key] ELSE undefined

EmptyObj == [k \in {} |-> << >>]

IsThrow(v) == Len(v) > 0 /\ v[1] = "throw"
Throw(msg) == <<"throw">> \o msg


\* A number: parseInt yields NaN or an integer.
NaN == [nan |-> TRUE]
Num(n) == [nan |-> FALSE, n |-> n]
isNaN(x) == x.nan

DigitChars == {"0", "1", "2", "3", "4", "5", "6", "7", "8", "9"}
DigitVal == [c \in DigitChars |->
    CASE c = "0" -> 0 [] c = "1" -> 1 [] c = "2" -> 2 [] c = "3" -> 3 [] c = "4" -> 4
      [] c = "5" -> 5 [] c = "6" -> 6 [] c = "7" -> 7 [] c = "8" -> 8 [] c = "9" -> 9]

\* Value of the longest run of decimal digits of s starting at position i,
\* acc being the value and n the number of digits read so far.
RECURSIVE DigitRun(_, _, _, _)
DigitRun(s, i, acc, n) ==
    IF i <= Len(s) /\ s[i] \in DigitChars
    THEN DigitRun(s, i + 1, acc * 10 + DigitVal[s[i]], n + 1)
    ELSE [value |-> acc, digits |-> n]

\* Index of the first character of s at or after i that is not white space.
RECURSIVE SkipSpace(_, _)
SkipSpace(s, i) == IF i <= Len(s) /\ s[i] = " " THEN SkipSpace(s, i + 1) ELSE i

\* parseInt(s, 10): leading white space, an optional sign, then the longest
\* prefix of decimal digits; NaN when there is no digit.
parseInt(s) ==
    IF s = undefined \/ s = null THEN NaN
    ELSE LET i == SkipSpace(s, 1)
             signed == i <= Len(s) /\ s[i] \in {"-", "+"}
             neg == signed /\ s[i] = "-"
             run == DigitRun(s, IF signed THEN i + 1 ELSE i, 0, 0)
         IN IF run.digits = 0 THEN NaN
            ELSE Num(IF neg THEN 0 - run.value ELSE run.value)

\* UTF-8 code of the (ASCII) characters API keys are written with.
CharCode == [c \in {"a", "b", "c"} |-> CASE c = "a" -> 97 [] c = "b" -> 98 [] c = "c" -> 99]

\* Buffer.from(s): the bytes of s.
BufferFrom(s) == [i \in 1..Len(s) |-> CharCode[s[i]]]

\* crypto.timingSafeEqual(a, b), called on buffers of equal length only.
timingSafeEqual(a, b) == \A i \in 1..Len(a) : a[i] = b[i]

-----------------------------------------------------------------------------
(* config.ts: agent context *)

\* The top-level async context (module code, direct callers) and one context
\* per request.
Reqs == 1..NReq
Ctx == 0..NReq

NoStore == [bound |-> FALSE]
StoreOf(agentId) == [bound |-> TRUE, agentId |-> agentId]

\* A single module-level slot instead of a per-context store: the identity
\* of the latest context that entered a scope is seen by everybody.
getCurrentAgentId_global(ctx) ==
    LET S == {c \in Ctx : store[c].bound}
    IN IF S = {} THEN undefined
       ELSE store[CHOOSE c \in S : \A d \in S : d <= c].agentId

\* A scope whose store stays in place when fn has returned (set as with
\* storage.enterWith instead of for the run of fn only).
runWithAgentReturn_keep(ctx) == store

\* storage.run({ agentId }, fn) returns: the async context is back outside
\* the scope.
runWithAgentReturn(ctx) == [store EXCEPT ![ctx] = NoStore]

\* storage.getStore()?.agentId in async context ctx
getCurrentAgentId(ctx) ==
    IF store[ctx].bound THEN store[ctx].agentId ELSE undefined

-----------------------------------------------------------------------------
(* config.ts: agents config loading *)

NullConfig == [isNull |-> TRUE]
EmptyConfig == [isNull |-> FALSE, agents |-> << >>, hasShared |-> TRUE, shared |-> EmptyObj]

\* readFileSync(configPath, "utf-8")
readFileSync ==
    IF file.kind = "ENOENT" THEN [threw |-> TRUE, code |-> "ENOENT", message |-> <<"ENOENT">>]
    ELSE IF file.kind = "EACCES" THEN [threw |-> TRUE, code |-> "EACCES", message |-> <<"EACCES">>]
    ELSE [threw |-> FALSE, raw |-> file]

\* JSON.parse(raw) as AgentsFile
JSONparse(raw) ==
    IF raw.kind = "JSON"
    THEN [threw |-> FALSE,
          value |-> [isNull |-> FALSE, agents |-> raw.agents,
                     hasShared |-> raw.hasShared, shared |-> raw.shared]]
    ELSE [threw |-> TRUE, message |-> <<"SyntaxError">>]

\* The outcome of reading and parsing the file, given rd = readFileSync(...):
\* value is what loadAgentsConfig returns, cache what it leaves in
\* agentsConfig, read whether the file was read.
LoadFrom(rd) ==
    IF rd.threw
    THEN IF rd.code = "ENOENT"
         THEN [threw |-> FALSE, value |-> EmptyConfig, cache |-> EmptyConfig, read |-> TRUE]
         ELSE [threw |-> TRUE, cache |-> agentsConfig, read |-> TRUE,
               error |-> Throw(<<"Failed to load agents.json: ">> \o rd.message)]
    ELSE IF JSONparse(rd.raw).threw
         THEN [threw |-> TRUE, cache |-> agentsConfig, read |-> TRUE,
               error |-> Throw(<<"Failed to load agents.json: ">> \o JSONparse(rd.raw).message)]
         ELSE [threw |-> FALSE, value |-> JSONparse(rd.raw).value,
               cache |-> JSONparse(rd.raw).value, read |-> TRUE]

\* loadAgentsConfig() without the memo: the file is read at every call.
loadAgentsConfig_noMemo == LoadFrom(readFileSync)

\* loadAgentsConfig()
loadAgentsConfig ==
    IF ~agentsConfig.isNull
    THEN [threw |-> FALSE, value |-> agentsConfig, cache |-> agentsConfig, read |-> FALSE]
    ELSE LoadFrom(readFileSync)

\* hasAgents() that reports whether a configuration is there at all.
HasAgentsIn_configPresent(c) ==
    IF c.threw THEN [threw |-> TRUE, error |-> c.error]
    ELSE [threw |-> FALSE, value |-> ~c.value.isNull]

\* hasAgents() on the outcome c of loadAgentsConfig()
HasAgentsIn(c) ==
    IF c.threw THEN [threw |-> TRUE, error |-> c.error]
    ELSE [threw |-> FALSE, value |-> Len(c.value.agents) > 0]

\* hasAgents()
hasAgents == HasAgentsIn(loadAgentsConfig)

\* The comparison of resolveAgentByApiKey with the length test dropped and
\* the bytes compared over the shorter buffer only.
keyMatches_prefix(keyBuf, storedBuf) ==
    \A i \in 1..(IF Len(keyBuf) < Len(storedBuf) THEN Len(keyBuf) ELSE Len(storedBuf)) :
        keyBuf[i] = storedBuf[i]

\* keyBuf.length === storedBuf.length && timingSafeEqual(keyBuf, storedBuf)
keyMatches(keyBuf, storedBuf) ==
    Len(keyBuf) = Len(storedBuf) /\ timingSafeEqual(keyBuf, storedBuf)

\* The loop of resolveAgentByApiKey over Object.entries(config.agents) from
\* entry i on.
RECURSIVE resolveFrom(_, _, _)
resolveFrom(entries, i, keyBuf) ==
    IF i > Len(entries) THEN null
    ELSE IF keyMatches(keyBuf, BufferFrom(entries[i].fields["apiKey"]))
         THEN entries[i].id
         ELSE resolveFrom(entries, i + 1, keyBuf)

\* resolveAgentByApiKey(apiKey) on the outcome c of loadAgentsConfig()
ResolveIn(c, apiKey) ==
    IF c.threw THEN c.error
    ELSE resolveFrom(c.value.agents, 1, BufferFrom(apiKey))

\* resolveAgentByApiKey(apiKey)
resolveAgentByApiKey(apiKey) == ResolveIn(loadAgentsConfig, apiKey)

\* config.agents[agentId]
HasAgent(agents, agentId) == \E i \in 1..Len(agents) : agents[i].id = agentId
AgentOf(agents, agentId) ==
    agents[CHOOSE i \in 1..Len(agents) : agents[i].id = agentId].fields

\* getAgentEnv(agentId, key) on the outcome c of loadAgentsConfig()
AgentEnvIn(c, agentId, key) ==
    IF c.threw THEN c.error
    ELSE IF HasAgent(c.value.agents, agentId)
            /\ key \in DOMAIN AgentOf(c.value.agents, agentId)
            /\ key # "apiKey"
         THEN AgentOf(c.value.agents, agentId)[key]
         ELSE IF c.value.hasShared /\ key \in DOMAIN c.value.shared
              THEN c.value.shared[key]
              ELSE undefined

\* getAgentEnv(agentId, key)
getAgentEnv(agentId, key) == AgentEnvIn(loadAgentsConfig, agentId, key)

-----------------------------------------------------------------------------
(* config.ts: environment resolution *)

\* val when it is not undefined, else other
Coalesce(val, other) == IF val # undefined THEN val ELSE other

\* getEnv with the tiers in the wrong order: the process environment wins
\* over the credentials file.
EnvFor_envFirst(agentId, key) ==
    Coalesce(OrElse(Get(procEnv, key), undefined),
             IF Truthy(agentId) THEN getAgentEnv(agentId, key) ELSE undefined)

\* getEnv that consults the credentials file whether or not an identity is
\* bound, so that shared defaults apply outside every scope.
EnvFor_sharedOutside(agentId, key) ==
    Coalesce(getAgentEnv(agentId, key), OrElse(Get(procEnv, key), undefined))

\* getEnv(key) when getCurrentAgentId() returned agentId
EnvFor(agentId, key) ==
    Coalesce(IF Truthy(agentId) THEN getAgentEnv(agentId, key) ELSE undefined,
             OrElse(Get(procEnv, key), undefined))

\* getEnv with the identity captured once, by the earliest scope still in
\* flight, instead of read from the caller's own async context.
getEnv_capturedIdentity(ctx, key) ==
    EnvFor(getCurrentAgentId(IF \E c \in Ctx : store[c].bound
                             THEN CHOOSE c \in Ctx :
                                    store[c].bound /\ \A d \in Ctx : store[d].bound => c <= d
                             ELSE ctx), key)

\* getEnv(key) called in async context ctx
getEnv(ctx, key) == EnvFor(getCurrentAgentId(ctx), key)

\* A getAgentEnv that copies the shared defaults into the block of the agent
\* it resolved a setting for.
CacheAfterGetEnv_writeBack(agentId) ==
    IF Truthy(agentId) /\ ~loadAgentsConfig.threw
    THEN [loadAgentsConfig.cache EXCEPT
            !.agents = [i \in 1..Len(@) |->
                          IF @[i].id = agentId
                          THEN [@[i] EXCEPT !.fields = @ @@ loadAgentsConfig.cache.shared]
                          ELSE @[i]]]
    ELSE agentsConfig

\* agentsConfig after code called getEnv while getCurrentAgentId() was agentId.
CacheAfterGetEnv(agentId) ==
    IF Truthy(agentId) THEN loadAgentsConfig.cache ELSE agentsConfig

\* getRequiredEnv whose error leaves out the agent context.
Required_noAgent(val, agentId, key) ==
    IF IsThrow(val) THEN val
    ELSE IF ~Truthy(val) THEN Throw(<<"Missing required config: ", key>>)
         ELSE val

\* getRequiredEnv(key) given val = getEnv(key) and agentId = getCurrentAgentId()
Required(val, agentId, key) ==
    IF IsThrow(val) THEN val
    ELSE IF ~Truthy(val)
         THEN Throw(<<"Missing required config: ", key>>
                    \o (IF Truthy(agentId) THEN <<" (agent: ">> \o agentId \o <<")">>
                        ELSE << >>))
         ELSE val

\* getRequiredEnv(key) called in async context ctx
getRequiredEnv(ctx, key) == Required(getEnv(ctx, key), getCurrentAgentId(ctx), key)

-----------------------------------------------------------------------------
(* config.ts: server, email and IMAP config *)

\* The port test with the lower limit off by one: port 0 passes.
InvalidPort_zeroAllowed(port) == isNaN(port) \/ port.n < 0 \/ port.n > 65535

\* isNaN(port) || port < 1 || port > 65535
InvalidPort(port) == isNaN(port) \/ port.n < 1 \/ port.n > 65535

\* getServerConfig() given what its three getEnv calls returned
ServerConfigOf(envPort, envHost, apiKey) ==
    IF IsThrow(envPort) THEN [threw |-> TRUE, error |-> envPort]
    ELSE IF InvalidPort(parseInt(Nullish(envPort, <<"3", "0", "0", "0">>)))
         THEN [threw |-> TRUE,
               error |-> Throw(<<"Invalid MCP_PORT: ">> \o Nullish(envPort, <<"3", "0", "0", "0">>))]
    ELSE IF IsThrow(envHost) THEN [threw |-> TRUE, error |-> envHost]
    ELSE IF IsThrow(apiKey) THEN [threw |-> TRUE, error |-> apiKey]
    ELSE [threw |-> FALSE, port |-> parseInt(Nullish(envPort, <<"3", "0", "0", "0">>)),
          host |-> Nullish(envHost, <<"127.0.0.1">>), apiKey |-> apiKey]

\* getServerConfig() called in async context ctx
getServerConfig(ctx) ==
    ServerConfigOf(getEnv(ctx, "MCP_PORT"), getEnv(ctx, "MCP_HOST"), getEnv(ctx, "MCP_API_KEY"))

\* The first thrown value of a sequence of evaluated expressions, in order.
FirstThrow(vals) ==
    vals[CHOOSE i \in 1..Len(vals) :
            IsThrow(vals[i]) /\ \A j \in 1..(i - 1) : ~IsThrow(vals[j])]
AnyThrow(vals) == \E i \in 1..Len(vals) : IsThrow(vals[i])

\* getEmailConfig() whose sender is always the required SMTP_USER.
EmailConfigOf_fromUser(host, portStr, envFrom, requiredUser, user, pass) ==
    IF AnyThrow(<<host, portStr, requiredUser, user, pass>>)
    THEN [threw |-> TRUE, error |-> FirstThrow(<<host, portStr, requiredUser, user, pass>>)]
    ELSE [threw |-> FALSE, host |-> host,
          port |-> parseInt(Nullish(portStr, <<"5", "8", "7">>)),
          from |-> requiredUser, user |-> user, pass |-> pass]

\* getEmailConfig() given what its getEnv / getRequiredEnv calls returned;
\* getRequiredEnv("SMTP_USER") is evaluated only when SMTP_FROM is nullish.
EmailConfigOf(host, portStr, envFrom, requiredUser, user, pass) ==
    IF AnyThrow(<<host, portStr, Nullish(envFrom, requiredUser), user, pass>>)
    THEN [threw |-> TRUE,
          error |-> FirstThrow(<<host, portStr, Nullish(envFrom, requiredUser), user, pass>>)]
    ELSE [threw |-> FALSE, host |-> host,
          port |-> parseInt(Nullish(portStr, <<"5", "8", "7">>)),
          from |-> Nullish(envFrom, requiredUser), user |-> user, pass |-> pass]

\* getEmailConfig() called in async context ctx
getEmailConfig(ctx) ==
    EmailConfigOf(getRequiredEnv(ctx, "SMTP_HOST"), getEnv(ctx, "SMTP_PORT"),
                  getEnv(ctx, "SMTP_FROM"), getRequiredEnv(ctx, "SMTP_USER"),
                  getEnv(ctx, "SMTP_USER"), getEnv(ctx, "SMTP_PASS"))

\* getImapConfig() given what its getEnv / getRequiredEnv calls returned
ImapConfigOf(host, portStr, user, pass, tls) ==
    IF AnyThrow(<<host, portStr, user, pass, tls>>)
    THEN [threw |-> TRUE, error |-> FirstThrow(<<host, portStr, user, pass, tls>>)]
    ELSE [threw |-> FALSE, host |-> host,
          port |-> parseInt(Nullish(portStr, <<"9", "9", "3">>)),
          user |-> user, pass |-> pass,
          tls |-> Nullish(tls, <<"true">>) # <<"false">>]

\* getImapConfig() called in async context ctx
getImapConfig(ctx) ==
    ImapConfigOf(getRequiredEnv(ctx, "IMAP_HOST"), getEnv(ctx, "IMAP_PORT"),
                 getRequiredEnv(ctx, "IMAP_USER"), getRequiredEnv(ctx, "IMAP_PASS"),
                 getEnv(ctx, "IMAP_TLS"))

-----------------------------------------------------------------------------
(* auth.ts *)

AUTH_ERROR == <<"Unauthorized: Invalid or missing API key">>

\* req.headers["x-api-key"]: string | string[] | undefined
NoHeader == [type |-> "undefined"]
StringHeader(k) == [type |-> "string", value |-> k]
ArrayHeader(ks) == [type |-> "object", items |-> ks]

\* res.status(status).json({jsonrpc: "2.0", error: {code, message}, id: null})
JsonRpcError(status, code, message) ==
    [status |-> status,
     body |-> [jsonrpc |-> <<"2.0">>,
               error |-> [code |-> code, message |-> message],
               id |-> null]]

\* The response to a header that is not a string (absent or repeated).
Unauthorized == JsonRpcError(401, -32001, AUTH_ERROR)

\* A multi-agent response that tells the caller no agent holds the key.
UnauthorizedNoAgent_distinct == JsonRpcError(401, -32001, <<"Unauthorized: Unknown API key">>)

\* The response to a key no agent holds (multi-agent mode).
UnauthorizedNoAgent == JsonRpcError(401, -32001, AUTH_ERROR)

\* The response to a key that differs from MCP_API_KEY (single-agent mode).
UnauthorizedMismatch == JsonRpcError(401, -32001, AUTH_ERROR)

NoResponse == [status |-> 0]

\* What one call of authenticate did: the response it sent (if any), how
\* often it called next, and req.agentId as it left it.
RejectedWith(response) ==
    [threw |-> FALSE, response |-> response, nextCalls |-> 0, agentId |-> undefined]
Rejected == RejectedWith(Unauthorized)
Allowed(agentId) == [threw |-> FALSE, response |-> NoResponse, nextCalls |-> 1, agentId |-> agentId]
AuthThrew(e) == [threw |-> TRUE, error |-> e, response |-> NoResponse, nextCalls |-> 0,
                 agentId |-> undefined]

\* Single-agent comparison that accepts every key starting with the static key.
staticKeyMismatch_prefix(keyBuf, apiBuf) ==
    Len(keyBuf) < Len(apiBuf) \/ \E i \in 1..Len(apiBuf) : keyBuf[i] # apiBuf[i]

\* keyBuf.length !== apiBuf.length || !timingSafeEqual(keyBuf, apiBuf)
staticKeyMismatch(keyBuf, apiBuf) ==
    Len(keyBuf) # Len(apiBuf) \/ ~timingSafeEqual(keyBuf, apiBuf)

\* Multi-agent branch that lets a key matching no agent through, unbound.
MultiAgentDecision_fallThrough(agentId) ==
    IF IsThrow(agentId) THEN AuthThrew(agentId)
    ELSE IF ~Truthy(agentId) THEN Allowed(undefined) ELSE Allowed(agentId)

\* Multi-agent branch of authenticate given agentId = resolveAgentByApiKey(key)
MultiAgentDecision(agentId) ==
    IF IsThrow(agentId) THEN AuthThrew(agentId)
    ELSE IF ~Truthy(agentId) THEN RejectedWith(UnauthorizedNoAgent) ELSE Allowed(agentId)

\* authenticate with a missing header taken as "no authentication asked".
AuthDecision_missingKeyAllowed(multiAgent, config, providedKey) ==
    IF multiAgent.threw THEN AuthThrew(multiAgent.error)
    ELSE IF config.threw THEN AuthThrew(config.error)
    ELSE IF ~multiAgent.value /\ ~Truthy(config.apiKey) THEN Allowed(undefined)
    ELSE IF providedKey.type = "undefined" THEN Allowed(undefined)
    ELSE IF providedKey.type # "string" THEN Rejected
    ELSE IF multiAgent.value
         THEN MultiAgentDecision(resolveAgentByApiKey(providedKey.value))
         ELSE IF staticKeyMismatch(BufferFrom(providedKey.value), BufferFrom(config.apiKey))
              THEN RejectedWith(UnauthorizedMismatch)
              ELSE Allowed(undefined)

\* authenticate with the typeof test made before the nothing-configured test.
AuthDecision_typeCheckFirst(multiAgent, config, providedKey) ==
    IF multiAgent.threw THEN AuthThrew(multiAgent.error)
    ELSE IF config.threw THEN AuthThrew(config.error)
    ELSE IF providedKey.type # "string" THEN Rejected
    ELSE IF ~multiAgent.value /\ ~Truthy(config.apiKey) THEN Allowed(undefined)
    ELSE IF multiAgent.value
         THEN MultiAgentDecision(resolveAgentByApiKey(providedKey.value))
         ELSE IF staticKeyMismatch(BufferFrom(providedKey.value), BufferFrom(config.apiKey))
              THEN RejectedWith(UnauthorizedMismatch)
              ELSE Allowed(undefined)

\* authenticate that accepts the static key in either mode, before any agent
\* key is looked up.
AuthDecision_staticKeyFirst(multiAgent, config, providedKey) ==
    IF multiAgent.threw THEN AuthThrew(multiAgent.error)
    ELSE IF config.threw THEN AuthThrew(config.error)
    ELSE IF ~multiAgent.value /\ ~Truthy(config.apiKey) THEN Allowed(undefined)
    ELSE IF providedKey.type # "string" THEN Rejected
    ELSE IF Truthy(config.apiKey)
            /\ ~staticKeyMismatch(BufferFrom(providedKey.value), BufferFrom(config.apiKey))
         THEN Allowed(undefined)
         ELSE IF multiAgent.value
              THEN MultiAgentDecision(resolveAgentByApiKey(providedKey.value))
              ELSE RejectedWith(UnauthorizedMismatch)

\* authenticate given multiAgent = hasAgents() and config = getServerConfig()
AuthDecision(multiAgent, config, providedKey) ==
    IF multiAgent.threw THEN AuthThrew(multiAgent.error)
    ELSE IF config.threw THEN AuthThrew(config.error)
    ELSE IF ~multiAgent.value /\ ~Truthy(config.apiKey) THEN Allowed(undefined)
    ELSE IF providedKey.type # "string" THEN Rejected
    ELSE IF multiAgent.value
         THEN MultiAgentDecision(resolveAgentByApiKey(providedKey.value))
         ELSE IF staticKeyMismatch(BufferFrom(providedKey.value), BufferFrom(config.apiKey))
              THEN RejectedWith(UnauthorizedMismatch)
              ELSE Allowed(undefined)

\* authenticate(req, res, next) run in async context ctx on a request whose
\* x-api-key header is providedKey
authenticate(ctx, providedKey) == AuthDecision(hasAgents, getServerConfig(ctx), providedKey)

-----------------------------------------------------------------------------
(* Credentials files and process environments *)

coo == <<"coo">>
dev == <<"dev">>
\* An agent id no credentials file registers.
zed == <<"zed">>

KeyChars == {"a", "b"}
Keys == StrUpTo(KeyChars, MaxKeyLen)

AgentEntry(id, fields) == [id |-> id, fields |-> fields]
JsonFile(agents, hasShared, shared) ==
    [kind |-> "JSON", agents |-> agents, hasShared |-> hasShared, shared |-> shared]
NoFile == [kind |-> "ENOENT"]
BadJson == [kind |-> "BADJSON"]

\* A key of an object that is absent, set to the empty string or set to v.
OptField(key, v) == {EmptyObj, key :> << >>, key :> v}

\* Files that vary the API keys: no agent, coo alone, coo then dev, with
\* every key (equal keys included).
KeyFiles ==
    {JsonFile(<< >>, FALSE, EmptyObj)}
    \cup {JsonFile(<<AgentEntry(coo, "apiKey" :> k1)>>, FALSE, EmptyObj) : k1 \in Keys}
    \cup {JsonFile(<<AgentEntry(coo, "apiKey" :> k[1]), AgentEntry(dev, "apiKey" :> k[2])>>,
                   FALSE, EmptyObj) : k \in Keys \X Keys}

\* The setting the tier files vary.
TierKey == "SMTP_HOST"

\* Files that vary the presence of TierKey in coo's overrides and in the
\* shared block, and of an apiKey entry in the shared block.
TierFiles ==
    {JsonFile(<<AgentEntry(coo, ("apiKey" :> <<"a">>) @@ o),
                AgentEntry(dev, "apiKey" :> <<"b">>)>>, sh.has, sh.obj) :
        o \in OptField(TierKey, <<"coo.host">>),
        sh \in {[has |-> FALSE, obj |-> EmptyObj]}
               \cup {[has |-> TRUE, obj |-> x @@ y] :
                        x \in OptField(TierKey, <<"shared.host">>),
                        y \in {EmptyObj, "apiKey" :> <<"shared-key">>}}}

TierEnvs == OptField(TierKey, <<"env.host">>)

\* Worlds that vary the static key: no file, no agent or one agent, with
\* every MCP_API_KEY (the empty one included).
StaticKeyWorlds ==
    {[file |-> f, env |-> "MCP_API_KEY" :> k] :
        f \in {NoFile, JsonFile(<< >>, FALSE, EmptyObj),
               JsonFile(<<AgentEntry(coo, "apiKey" :> <<"a">>)>>, FALSE, EmptyObj)},
        k \in Keys}

\* What agents.json may become while the process runs: it is rewritten with
\* another agent and other defaults.
ChangedFiles ==
    {JsonFile(<<AgentEntry(zed, "apiKey" :> <<"b">>)>>, TRUE, TierKey :> <<"new.host">>)}

\* The worlds direct calls of the exported functions are made in.
ApiWorlds ==
    {[file |-> f, env |-> EmptyObj] : f \in KeyFiles \cup {NoFile, BadJson}}
    \cup {[file |-> f, env |-> e] : f \in TierFiles \cup {NoFile}, e \in TierEnvs}
    \cup StaticKeyWorlds

\* The x-api-key headers a direct call of authenticate is given.
ApiHeaders ==
    {NoHeader, ArrayHeader(<<<<"a">>, <<"a">>>>)} \cup {StringHeader(k) : k \in Keys}

-----------------------------------------------------------------------------
(* Direct calls of the functions config.ts exports (as config.test.ts makes *)
(* them), from the top-level async context 0                                *)

NoCall == [op |-> "none"]

InitApi ==
    /\ \E w \in ApiWorlds : file = w.file /\ procEnv = w.env
    /\ agentsConfig = NullConfig
    /\ boot = "init"
    /\ store = [c \in Ctx |-> NoStore]
    /\ req = [r \in Reqs |-> [pc |-> "idle"]]
    /\ api = NoCall

\* runWithAgent(agentId, fn) is entered: fn starts in a scope bound to agentId.
ApiEnter(agentId) ==
    /\ ~store[0].bound
    /\ store' = [store EXCEPT ![0] = StoreOf(agentId)]
    /\ api' = [op |-> "runWithAgent", agentId |-> agentId]
    /\ UNCHANGED <<file, procEnv, agentsConfig, boot, req>>

\* fn returns: storage.run restores the caller's store.
ApiExit ==
    /\ store[0].bound
    /\ store' = runWithAgentReturn(0)
    /\ api' = [op |-> "return"]
    /\ UNCHANGED <<file, procEnv, agentsConfig, boot, req>>

\* What a call observes of the load it makes: the configuration cached when
\* it starts, whether it reads the file, whether its load fails, and whether
\* the call before it had failed to load.
LoadTrace ==
    [before |-> agentsConfig,
     read |-> loadAgentsConfig.read,
     loadFailed |-> loadAgentsConfig.threw,
     afterFailure |-> "loadFailed" \in DOMAIN api /\ api.loadFailed]

\* agents.json is replaced, removed or damaged on disk while the process runs.
ApiFileChanged(f) ==
    /\ file # f
    /\ file' = f
    /\ UNCHANGED <<procEnv, agentsConfig, boot, store, req, api>>

ApiHasAgents ==
    /\ api' = [op |-> "hasAgents", result |-> hasAgents] @@ LoadTrace
    /\ agentsConfig' = loadAgentsConfig.cache
    /\ UNCHANGED <<file, procEnv, boot, store, req>>

ApiResolve(apiKey) ==
    /\ api' = [op |-> "resolveAgentByApiKey", apiKey |-> apiKey,
               result |-> resolveAgentByApiKey(apiKey)] @@ LoadTrace
    /\ agentsConfig' = loadAgentsConfig.cache
    /\ UNCHANGED <<file, procEnv, boot, store, req>>

ApiGetAgentEnv(agentId, key) ==
    /\ api' = [op |-> "getAgentEnv", agentId |-> agentId, key |-> key,
               result |-> getAgentEnv(agentId, key)] @@ LoadTrace
    /\ agentsConfig' = loadAgentsConfig.cache
    /\ UNCHANGED <<file, procEnv, boot, store, req>>

ApiGetEnv(key) ==
    /\ api' = [op |-> "getEnv", scope |-> getCurrentAgentId(0), key |-> key,
               result |-> getEnv(0, key)]
    /\ agentsConfig' = CacheAfterGetEnv(getCurrentAgentId(0))
    /\ UNCHANGED <<file, procEnv, boot, store, req>>

\* authenticate(req, res, next) on a request with header h, outside any scope.
ApiAuthenticate(h) ==
    /\ ~store[0].bound
    /\ api' = [op |-> "authenticate", header |-> h, result |-> authenticate(0, h)]
    /\ agentsConfig' = loadAgentsConfig.cache
    /\ UNCHANGED <<file, procEnv, boot, store, req>>

AgentIds == {coo, dev, zed}
ApiKeyNames == {TierKey, "apiKey"}

NextApi ==
    \/ \E f \in ChangedFiles : ApiFileChanged(f)
    \/ \E a \in AgentIds : ApiEnter(a)
    \/ ApiExit
    \/ ApiHasAgents
    \/ \E k \in Keys : ApiResolve(k)
    \/ \E a \in AgentIds, key \in ApiKeyNames : ApiGetAgentEnv(a, key)
    \/ \E key \in ApiKeyNames : ApiGetEnv(key)
    \/ \E h \in ApiHeaders : ApiAuthenticate(h)

SpecApi == InitApi /\ [][NextApi]_vars

-----------------------------------------------------------------------------
(* server.ts: gate_email helpers *)

\* /untrusted/i on a word: the letter cases a word token is written in.
UntrustedWords == {"untrusted", "UNTRUSTED", "Untrusted"}

TAG_STRIPPED == <<"[", "TAG_STRIPPED", "]">>

\* Length of the match at position i of s of
\*   "angle"   /<\/?untrusted>/i
\*   "square"  /\[\/untrusted\]/i
\*   "brace"   /\{\/untrusted\}/i
\* or 0 when there is none.
MatchLen(re, s, i) ==
    LET closing(open, close) ==
            /\ i + 3 <= Len(s)
            /\ s[i] = open /\ s[i + 1] = "/" /\ s[i + 2] \in UntrustedWords /\ s[i + 3] = close
    IN CASE re = "angle" ->
                IF i + 2 <= Len(s) /\ s[i] = "<" /\ s[i + 1] \in UntrustedWords /\ s[i + 2] = ">"
                THEN 3
                ELSE IF closing("<", ">") THEN 4 ELSE 0
         [] re = "square" -> IF closing("[", "]") THEN 4 ELSE 0
         [] re = "brace" -> IF closing("{", "}") THEN 4 ELSE 0

\* s.replace(re, "[TAG_STRIPPED]") without the g flag: the first match only.
ReplaceFrom_firstOnly(re, s, i) ==
    LET hits == {j \in i..Len(s) : MatchLen(re, s, j) > 0}
    IN IF hits = {} THEN SubSeq(s, i, Len(s))
       ELSE LET j == CHOOSE h \in hits : \A k \in hits : h <= k
            IN SubSeq(s, i, j - 1) \o TAG_STRIPPED
               \o SubSeq(s, j + MatchLen(re, s, j), Len(s))

\* s.replace(re, "[TAG_STRIPPED]") with the g flag, from position i on.
RECURSIVE ReplaceFrom(_, _, _)
ReplaceFrom(re, s, i) ==
    IF i > Len(s) THEN << >>
    ELSE IF MatchLen(re, s, i) > 0
         THEN TAG_STRIPPED \o ReplaceFrom(re, s, i + MatchLen(re, s, i))
         ELSE <<s[i]>> \o ReplaceFrom(re, s, i + 1)

\* stripUntrusted(s)
stripUntrusted(s) ==
    ReplaceFrom("brace", ReplaceFrom("square", ReplaceFrom("angle", s, 1), 1), 1)

\* `<untrusted>\n${stripUntrusted(s)}\n</untrusted>`
WrapUntrusted(s) ==
    <<"<", "untrusted", ">", "\n">> \o stripUntrusted(s) \o <<"\n", "<", "/", "untrusted", ">">>

\* lines.filter(Boolean).join("\n")
RECURSIVE JoinLines(_)
JoinLines(lines) ==
    IF lines = << >> THEN << >>
    ELSE IF ~Truthy(Head(lines)) THEN JoinLines(Tail(lines))
    ELSE LET rest == JoinLines(Tail(lines))
         IN IF rest = << >> THEN Head(lines) ELSE Head(lines) \o <<"\n">> \o rest

\* email.attachments.map(...).join(", ") or "(none)"
RECURSIVE AttachmentList(_)
AttachmentList(atts) ==
    IF atts = << >> THEN <<"(none)">>
    ELSE LET a == Head(atts)
             one == a.filename \o <<" (">> \o a.contentType \o <<", ">>
                    \o Nullish(a.size, <<"?">>) \o <<"B)">>
         IN IF Tail(atts) = << >> THEN one ELSE one \o <<", ">> \o AttachmentList(Tail(atts))

\* The audit text that names no agent, whoever asked.
LogLines_anonymous(uid, mb, agentId, email) ==
    JoinLines(<<
        <<"[gate_email] uid=", ToString(uid), " mailbox=">> \o mb \o <<" agent=", "unknown">>,
        <<"From: ">> \o email.from,
        <<"To: ">> \o email.to,
        <<"Subject: ">> \o email.subject,
        <<"Date: ">> \o email.date,
        <<"MessageId: ">> \o Nullish(email.messageId, <<"(none)">>),
        IF Truthy(email.cc) THEN <<"Cc: ">> \o email.cc ELSE null,
        <<"Attachments: ">> \o AttachmentList(email.attachments),
        <<"---">>,
        Nullish(email.text, Nullish(email.html, <<"(no body)">>))
    >>)

\* The audit text of gate_email (logLines).
LogLines(uid, mb, agentId, email) ==
    JoinLines(<<
        <<"[gate_email] uid=", ToString(uid), " mailbox=">> \o mb \o <<" agent=">> \o agentId,
        <<"From: ">> \o email.from,
        <<"To: ">> \o email.to,
        <<"Subject: ">> \o email.subject,
        <<"Date: ">> \o email.date,
        <<"MessageId: ">> \o Nullish(email.messageId, <<"(none)">>),
        IF Truthy(email.cc) THEN <<"Cc: ">> \o email.cc ELSE null,
        <<"Attachments: ">> \o AttachmentList(email.attachments),
        <<"---">>,
        Nullish(email.text, Nullish(email.html, <<"(no body)">>))
    >>)

\* A responseData that also carries the subject line of the message.
ResponseData_withSubject(email, logged, read_body) ==
    [uid |-> email.uid, from |-> email.from, subject |-> email.subject, date |-> email.date,
     logged |-> logged, email_log_channel |-> <<"email-log">>]
    @@ (IF read_body /\ Truthy(email.text)
        THEN "text" :> WrapUntrusted(email.text) ELSE EmptyObj)
    @@ (IF read_body /\ Truthy(email.html)
        THEN "html" :> WrapUntrusted(email.html) ELSE EmptyObj)

\* A responseData that carries the body whether or not read_body is set.
ResponseData_alwaysBody(email, logged, read_body) ==
    [uid |-> email.uid, from |-> email.from, date |-> email.date,
     logged |-> logged, email_log_channel |-> <<"email-log">>]
    @@ (IF Truthy(email.text) THEN "text" :> WrapUntrusted(email.text) ELSE EmptyObj)
    @@ (IF Truthy(email.html) THEN "html" :> WrapUntrusted(email.html) ELSE EmptyObj)

\* The object gate_email returns as JSON (responseData).
ResponseData(email, logged, read_body) ==
    LET base == [uid |-> email.uid, from |-> email.from, date |-> email.date,
                 logged |-> logged, email_log_channel |-> <<"email-log">>]
        text == IF read_body /\ Truthy(email.text)
                THEN "text" :> WrapUntrusted(email.text) ELSE EmptyObj
        html == IF read_body /\ Truthy(email.html)
                THEN "html" :> WrapUntrusted(email.html) ELSE EmptyObj
    IN base @@ text @@ html

\* { error: msg } of a caught error
ErrorData(e) == [error |-> Tail(e)]

-----------------------------------------------------------------------------
(* The worlds the server runs in *)

Mail(text, html) ==
    [uid |-> 1, from |-> <<"alice@ext.org">>, to |-> <<"coo@biz.com">>,
     subject |-> <<"hello">>, date |-> <<"2024-05-01">>, messageId |-> <<"<m1@ext.org>">>,
     cc |-> undefined, attachments |-> << >>, text |-> text, html |-> html]

\* The messages imap.getMessage may deliver.
Mails ==
    {Mail(<<"pay", "<", "/", "untrusted", ">", "now">>, undefined),
     Mail(undefined, <<"<p>hi</p>">>),
     Mail(undefined, undefined)}

SharedMailSettings ==
    ("SMTP_HOST" :> <<"smtp.biz.com">>) @@ ("SMTP_PORT" :> <<"5", "8", "7">>)
    @@ ("SMTP_USER" :> <<"shared@biz.com">>) @@ ("SMTP_PASS" :> <<"secret">>)
    @@ ("IMAP_HOST" :> <<"imap.biz.com">>) @@ ("IMAP_PORT" :> <<"9", "9", "3">>)
    @@ ("IMAP_USER" :> <<"shared@biz.com">>) @@ ("IMAP_PASS" :> <<"secret">>)

\* Two agents, dev's key extending coo's; coo alone has an audit token.
MultiAgentFile ==
    JsonFile(<<AgentEntry(coo, ("apiKey" :> <<"a">>) @@ ("SMTP_FROM" :> <<"coo@biz.com">>)
                               @@ ("COMMS_TOKEN" :> <<"tok-coo">>)
                               @@ ("COMMS_URL" :> <<"http://comms.biz">>)),
               AgentEntry(dev, ("apiKey" :> <<"a", "b">>) @@ ("IMAP_USER" :> <<"dev@biz.com">>))>>,
             TRUE, SharedMailSettings)

ServerWorlds ==
    { \* multi-agent mode; the static key is set too
      [file |-> MultiAgentFile, env |-> "MCP_API_KEY" :> <<"b">>],
      \* single static key mode
      [file |-> NoFile,
       env |-> ("MCP_API_KEY" :> <<"a">>) @@ ("MCP_PORT" :> <<"8", "0", "8", "0">>)
               @@ ("COMMS_TOKEN" :> <<"tok-env">>) @@ SharedMailSettings],
      \* nothing configured: open mode, and no IMAP_PASS
      [file |-> NoFile,
       env |-> ("SMTP_HOST" :> <<"smtp.biz.com">>) @@ ("SMTP_USER" :> <<"me@biz.com">>)
               @@ ("IMAP_HOST" :> <<"imap.biz.com">>) @@ ("IMAP_USER" :> <<"me@biz.com">>)
               @@ ("MCP_API_KEY" :> << >>)],
      \* agents.json does not parse
      [file |-> BadJson, env |-> "MCP_API_KEY" :> <<"a">>],
      \* a port main() refuses
      [file |-> NoFile, env |-> "MCP_PORT" :> <<"0">>] }

\* The x-api-key headers a request may carry: none, a repeated header, and
\* the keys of the worlds above with a prefix and an extension of each.
Headers ==
    {NoHeader, ArrayHeader(<<<<"a">>, <<"a">>>>),
     StringHeader(<< >>), StringHeader(<<"a">>), StringHeader(<<"a", "b">>),
     StringHeader(<<"b">>)}

-----------------------------------------------------------------------------
(* server.ts: POST /mcp *)

NoCfg == [threw |-> FALSE, unset |-> TRUE]
NoPost == [made |-> FALSE]
NoMail == [uid |-> 0]
NoResult == [pending |-> TRUE]

\* A request slot before a request arrives on it.
IdleReq ==
    [pc |-> "idle", header |-> NoHeader, auth |-> NoResponse, agentId |-> undefined,
     seen |-> {}, tool |-> "none", read_body |-> FALSE,
     emailCfg |-> NoCfg, imapCfg |-> NoCfg, email |-> NoMail,
     posted |-> NoPost, audit |-> "none", sink |-> "none", save |-> "none",
     result |-> NoResult]

Init ==
    /\ \E w \in ServerWorlds : file = w.file /\ procEnv = w.env
    /\ agentsConfig = NullConfig
    /\ boot = "init"
    /\ store = [c \in Ctx |-> NoStore]
    /\ req = [r \in Reqs |-> IdleReq]
    /\ api = NoCall

\* main(): getServerConfig() then app.listen; a throw is caught by
\* main().catch(console.error) and the server never listens.
Main ==
    /\ boot = "init"
    /\ boot' = IF getServerConfig(0).threw THEN "failed" ELSE "listening"
    /\ UNCHANGED <<file, procEnv, agentsConfig, store, req, api>>

\* The request record after authenticate ran on header h with outcome out:
\* on next the route handler runs up to its first suspension (await
\* server.connect); a throw goes to Express's error handler (500).
AfterAuthenticate(q, h, out) ==
    [q EXCEPT !.header = h,
              !.auth = out.response,
              !.agentId = out.agentId,
              !.pc = IF out.threw THEN "failed500"
                     ELSE IF out.nextCalls = 0 THEN "rejected"
                     ELSE "connecting"]

\* A request arrives on slot r and authenticate runs.
Authenticate(r) ==
    /\ boot = "listening"
    /\ req[r].pc = "idle"
    /\ \E h \in Headers : req' = [req EXCEPT ![r] = AfterAuthenticate(@, h, authenticate(r, h))]
    /\ agentsConfig' = loadAgentsConfig.cache
    /\ UNCHANGED <<file, procEnv, boot, store, api>>

\* storage.run({ agentId }, fn): the store of the async context fn runs in.
runWithAgent(ctx, agentId) == [store EXCEPT ![ctx] = StoreOf(agentId)]

\* server.connect has resolved: transport.handleRequest is called, inside
\* runWithAgent when req.agentId is set.
HandleRequest(r) ==
    /\ req[r].pc = "connecting"
    /\ store' = IF Truthy(req[r].agentId) THEN runWithAgent(r, req[r].agentId) ELSE store
    /\ req' = [req EXCEPT ![r].pc = "dispatch"]
    /\ UNCHANGED <<file, procEnv, agentsConfig, boot, api>>

\* gate_email up to the await of imap.getMessage, given imapConfig =
\* getImapConfig(); seenId is what getCurrentAgentId() returned to it.
GateStarted(q, rb, imapConfig, seenId) ==
    [q EXCEPT !.tool = "gate_email",
              !.read_body = rb,
              !.seen = @ \cup {seenId},
              !.imapCfg = imapConfig,
              !.result = IF imapConfig.threw THEN ErrorData(imapConfig.error) ELSE NoResult,
              !.pc = IF imapConfig.threw THEN "responded" ELSE "fetching"]

\* gate_email is called: getImapConfig(), then the await of imap.getMessage.
GateEmailStart(r) ==
    /\ req[r].pc = "dispatch"
    /\ \E rb \in BOOLEAN :
        req' = [req EXCEPT ![r] = GateStarted(@, rb, getImapConfig(r), getCurrentAgentId(r))]
    /\ agentsConfig' = CacheAfterGetEnv(getCurrentAgentId(r))
    /\ UNCHANGED <<file, procEnv, boot, store, api>>

\* A catch block that reports the failed fetch to the sink before answering.
GateFetchFailed_audited(q, e) ==
    [q EXCEPT !.result = ErrorData(e),
              !.posted = [made |-> TRUE,
                          url |-> <<"http://127.0.0.1:9754", "/api/channels/email-log/messages">>,
                          authorization |-> <<"Bearer ", "tok">>,
                          message |-> Tail(e)],
              !.pc = "responded"]

\* gate_email from the rejection of imap.getMessage with e: the catch block
\* answers with the error.
GateFetchFailed(q, e) == [q EXCEPT !.result = ErrorData(e), !.pc = "responded"]

\* imap.getMessage threw.
GateEmailFetchFailed(r) ==
    /\ req[r].pc = "fetching"
    /\ req' = [req EXCEPT ![r] = GateFetchFailed(@, Throw(<<"Message not found">>))]
    /\ UNCHANGED <<file, procEnv, agentsConfig, boot, store, api>>

\* fetch(`${commsUrl}/api/channels/email-log/messages`, {POST, Bearer, {message}})
AuditPost(commsUrl, commsToken, logLines) ==
    [made |-> TRUE,
     url |-> commsUrl \o <<"/api/channels/email-log/messages">>,
     authorization |-> <<"Bearer ">> \o commsToken,
     message |-> logLines]

\* gate_email from the resolution of imap.getMessage with email: the audit
\* text is built and, with a COMMS_TOKEN, posted to the sink (the await of
\* fetch); without one the response is built at once with logged = false.
GateFetched(q, email, envUrl, commsToken, currentId) ==
    [q EXCEPT !.email = email,
              !.seen = @ \cup {currentId},
              !.posted = IF Truthy(commsToken)
                         THEN AuditPost(Nullish(envUrl, <<"http://127.0.0.1:9754">>), commsToken,
                                        LogLines(1, <<"INBOX">>,
                                                 Nullish(currentId, <<"unknown">>), email))
                         ELSE NoPost,
              !.audit = IF Truthy(commsToken) THEN "pending" ELSE "none",
              !.result = IF Truthy(commsToken) THEN NoResult
                         ELSE ResponseData(email, FALSE, q.read_body),
              !.pc = IF Truthy(commsToken) THEN "posting" ELSE "responded"]

\* imap.getMessage resolved with a message.
GateEmailFetched(r) ==
    /\ req[r].pc = "fetching"
    /\ \E email \in Mails :
        req' = [req EXCEPT ![r] =
                  GateFetched(@, email, getEnv(r, "COMMS_URL"), getEnv(r, "COMMS_TOKEN"),
                              getCurrentAgentId(r))]
    /\ agentsConfig' = CacheAfterGetEnv(getCurrentAgentId(r))
    /\ UNCHANGED <<file, procEnv, boot, store, api>>

\* What the await of fetch may end in: a 2xx answer, another answer, a throw.
SinkOutcomes == {"ok", "status500", "threw"}

\* gate_email with no try/catch around the fetch: a transport error reaches
\* the outer catch and the call answers with the error.
GateLogged_uncaught(q, outcome) ==
    [q EXCEPT !.audit = "completed",
              !.sink = outcome,
              !.result = IF outcome = "threw" THEN ErrorData(Throw(<<"fetch failed">>))
                         ELSE ResponseData(q.email, outcome = "ok", q.read_body),
              !.pc = "responded"]

\* gate_email from the end of the await of fetch: logged = logResp.ok, or
\* false when fetch threw (caught), then the response is built.
GateLogged(q, outcome) ==
    [q EXCEPT !.audit = "completed",
              !.sink = outcome,
              !.result = ResponseData(q.email, outcome = "ok", q.read_body),
              !.pc = "responded"]

\* The sink answered (2xx or not) or the fetch threw: logged is set and the
\* response built.
GateEmailLogged(r) ==
    /\ req[r].pc = "posting"
    /\ \E outcome \in SinkOutcomes : req' = [req EXCEPT ![r] = GateLogged(@, outcome)]
    /\ UNCHANGED <<file, procEnv, agentsConfig, boot, store, api>>

SendResult ==
    [messageId |-> <<"<sent1@biz.com>">>, accepted |-> <<<<"bob@ext.org">>>>, rejected |-> << >>]

\* send_email up to the await of sendEmail, given config = getEmailConfig()
SendStarted(q, config, seenId) ==
    [q EXCEPT !.tool = "send_email",
              !.seen = @ \cup {seenId},
              !.emailCfg = config,
              !.result = IF config.threw THEN ErrorData(config.error) ELSE NoResult,
              !.pc = IF config.threw THEN "responded" ELSE "sending"]

\* send_email is called: getEmailConfig(), then the await of sendEmail.
SendEmailStart(r) ==
    /\ req[r].pc = "dispatch"
    /\ req' = [req EXCEPT ![r] = SendStarted(@, getEmailConfig(r), getCurrentAgentId(r))]
    /\ agentsConfig' = CacheAfterGetEnv(getCurrentAgentId(r))
    /\ UNCHANGED <<file, procEnv, boot, store, api>>

\* sendEmail threw: the outer catch answers with the error.
SendEmailFailed(r) ==
    /\ req[r].pc = "sending"
    /\ req' = [req EXCEPT ![r] =
                [@ EXCEPT !.result = ErrorData(Throw(<<"SMTP error">>)),
                          !.pc = "responded"]]
    /\ UNCHANGED <<file, procEnv, agentsConfig, boot, store, api>>

\* send_email with no inner try/catch: a throw of getImapConfig reaches the
\* outer catch and the call answers with the error.
SendSent_saveRequired(q, imapConfig, seenId) ==
    [q EXCEPT !.seen = @ \cup {seenId},
              !.imapCfg = imapConfig,
              !.save = IF imapConfig.threw THEN "configFailed" ELSE "building",
              !.result = IF imapConfig.threw THEN ErrorData(imapConfig.error) ELSE NoResult,
              !.pc = IF imapConfig.threw THEN "responded" ELSE "building"]

\* send_email from the resolution of sendEmail, given imapConfig =
\* getImapConfig(): then the await of buildRawMessage; a throw of
\* getImapConfig is caught and the send result returned. save records how
\* far the save to the Sent folder got.
SendSent(q, imapConfig, seenId) ==
    [q EXCEPT !.seen = @ \cup {seenId},
              !.imapCfg = imapConfig,
              !.save = IF imapConfig.threw THEN "configFailed" ELSE "building",
              !.result = IF imapConfig.threw THEN SendResult ELSE NoResult,
              !.pc = IF imapConfig.threw THEN "responded" ELSE "building"]

\* sendEmail resolved.
SendEmailSent(r) ==
    /\ req[r].pc = "sending"
    /\ req' = [req EXCEPT ![r] = SendSent(@, getImapConfig(r), getCurrentAgentId(r))]
    /\ agentsConfig' = CacheAfterGetEnv(getCurrentAgentId(r))
    /\ UNCHANGED <<file, procEnv, boot, store, api>>

\* buildRawMessage resolved (the await of imap.appendToSent follows) or threw
\* (caught: the send result is returned).
SendEmailBuilt(r) ==
    /\ req[r].pc = "building"
    /\ \E ok \in BOOLEAN :
        req' = [req EXCEPT ![r] =
                  [@ EXCEPT !.save = IF ok THEN "appending" ELSE "buildFailed",
                            !.result = IF ok THEN NoResult ELSE SendResult,
                            !.pc = IF ok THEN "appending" ELSE "responded"]]
    /\ UNCHANGED <<file, procEnv, agentsConfig, boot, store, api>>

\* imap.appendToSent resolved or threw: either way the send result is returned.
SendEmailAppended(r) ==
    /\ req[r].pc = "appending"
    /\ \E ok \in BOOLEAN :
        req' = [req EXCEPT ![r] =
                  [@ EXCEPT !.save = IF ok THEN "saved" ELSE "appendFailed",
                            !.result = SendResult,
                            !.pc = "responded"]]
    /\ UNCHANGED <<file, procEnv, agentsConfig, boot, store, api>>

\* handleRequest has resolved: the route handler resumes after its await,
\* outside the scope storage.run had set up; the request is over and its
\* slot free for the next request.
Complete(r) ==
    /\ req[r].pc = "responded"
    /\ store' = runWithAgentReturn(r)
    /\ req' = [req EXCEPT ![r] = IdleReq]
    /\ UNCHANGED <<file, procEnv, agentsConfig, boot, api>>

\* A request answered 401 or 500 is over; its slot is free for the next request.
NextRequest(r) ==
    /\ req[r].pc \in {"rejected", "failed500"}
    /\ req' = [req EXCEPT ![r] = IdleReq]
    /\ UNCHANGED <<file, procEnv, agentsConfig, boot, store, api>>

Next ==
    \/ Main
    \/ \E r \in Reqs :
        \/ Authenticate(r)
        \/ HandleRequest(r)
        \/ GateEmailStart(r)
        \/ GateEmailFetchFailed(r)
        \/ GateEmailFetched(r)
        \/ GateEmailLogged(r)
        \/ SendEmailStart(r)
        \/ SendEmailFailed(r)
        \/ SendEmailSent(r)
        \/ SendEmailBuilt(r)
        \/ SendEmailAppended(r)
        \/ Complete(r)
        \/ NextRequest(r)

Spec == Init /\ [][Next]_vars

-----------------------------------------------------------------------------
(* gate_email's response for every fetched body *)

\* The pieces a fetched body is made of: ordinary content, stray marker
\* characters, and the opening and closing boundary markers in their angle,
\* square-bracket and brace forms.
Fragments ==
    {<<"x">>, <<"<">>, <<">">>, <<"/">>, <<"untrusted">>,
     <<"<", "untrusted", ">">>, <<"<", "/", "untrusted", ">">>,
     <<"<", "UNTRUSTED", ">">>, <<"<", "/", "Untrusted", ">">>,
     <<"[", "untrusted", "]">>, <<"[", "/", "untrusted", "]">>,
     <<"{", "untrusted", "}">>, <<"{", "/", "untrusted", "}">>}

RECURSIVE Flatten(_)
Flatten(parts) == IF parts = << >> THEN << >> ELSE Head(parts) \o Flatten(Tail(parts))

\* The bodies imap.getMessage may deliver: up to MaxParts fragments.
Bodies == {Flatten(parts) : parts \in StrUpTo(Fragments, MaxParts)}

\* A message was fetched with its body in text or in html, and the audit ended.
InitBody ==
    /\ file = NoFile
    /\ procEnv = EmptyObj
    /\ agentsConfig = NullConfig
    /\ boot = "init"
    /\ store = [c \in Ctx |-> NoStore]
    /\ req = [r \in Reqs |-> [pc |-> "idle"]]
    /\ \E s \in Bodies, inText \in BOOLEAN, rb \in BOOLEAN, logged \in BOOLEAN :
        api = [op |-> "fetched",
               email |-> IF inText THEN Mail(s, undefined) ELSE Mail(undefined, s),
               read_body |-> rb, logged |-> logged]

\* responseData is built from the fetched message.
BodyRespond ==
    /\ api.op = "fetched"
    /\ api' = [api EXCEPT !.op = "responseData"]
              @@ [result |-> ResponseData(api.email, api.logged, api.read_body)]
    /\ UNCHANGED <<file, procEnv, agentsConfig, boot, store, req>>

NextBody == BodyRespond

SpecBody == InitBody /\ [][NextBody]_vars

-----------------------------------------------------------------------------
(* The accessors of config.ts called once, inside or outside a scope, for *)
(* every combination of settings                                           *)

\* A setting that is absent or set to v.
MayField(key, v) == {EmptyObj, key :> v}

\* The port settings: every string of up to MaxPortLen characters of
\* PortChars, and the two values around the upper limit.
PortChars == {"0", "7", "x"}
PortStrings ==
    StrUpTo(PortChars, MaxPortLen) \cup {<<"6", "5", "5", "3", "5">>, <<"6", "5", "5", "3", "6">>}
PortKeys == {"MCP_PORT", "SMTP_PORT", "IMAP_PORT"}

\* Worlds that vary SMTP_HOST, SMTP_FROM and SMTP_USER over coo's overrides,
\* the shared block and the process environment (the empty string included
\* where the file can hold one).
MailTierWorlds ==
    {[file |-> JsonFile(<<AgentEntry(coo, ("apiKey" :> <<"a">>) @@ fromA @@ userA),
                          AgentEntry(dev, "apiKey" :> <<"a", "b">>)>>,
                        TRUE, hostS @@ fromS @@ userS),
      env |-> fromE @@ userE] :
        fromA \in OptField("SMTP_FROM", <<"coo@biz.com">>),
        userA \in MayField("SMTP_USER", <<"coo-user@biz.com">>),
        hostS \in MayField("SMTP_HOST", <<"smtp.biz.com">>),
        fromS \in MayField("SMTP_FROM", <<"noreply@biz.com">>),
        userS \in OptField("SMTP_USER", <<"shared@biz.com">>),
        fromE \in MayField("SMTP_FROM", <<"env-from@biz.com">>),
        userE \in MayField("SMTP_USER", <<"env-user@biz.com">>)}

\* Worlds that vary one port setting, in the process environment (no
\* agents.json) and in the shared block, all other settings being there.
PortWorlds ==
    {[file |-> NoFile, env |-> (k :> p) @@ SharedMailSettings] :
        k \in PortKeys, p \in PortStrings}
    \cup {[file |-> JsonFile(<<AgentEntry(coo, "apiKey" :> <<"a">>),
                               AgentEntry(dev, "apiKey" :> <<"a", "b">>)>>,
                             TRUE, (k :> p) @@ SharedMailSettings),
           env |-> EmptyObj] :
        k \in PortKeys, p \in PortStrings}

\* Worlds where the credentials file holds server settings too, of its own.
ServerTierWorlds ==
    {[file |-> JsonFile(<<AgentEntry(coo, ("apiKey" :> <<"a">>)
                                          @@ ("MCP_API_KEY" :> <<"k-coo">>)),
                          AgentEntry(dev, "apiKey" :> <<"a", "b">>)>>,
                        TRUE, ("MCP_API_KEY" :> <<"k-shared">>)
                              @@ ("MCP_PORT" :> <<"7", "0", "0", "0">>)
                              @@ ("MCP_HOST" :> <<"0.0.0.0">>)),
      env |-> key @@ port @@ host] :
        key \in OptField("MCP_API_KEY", <<"k-env">>),
        port \in MayField("MCP_PORT", <<"7", "7">>),
        host \in MayField("MCP_HOST", <<"10.0.0.1">>)}

CfgWorlds == MailTierWorlds \cup PortWorlds \cup ServerTierWorlds

\* The settings getEnv and getRequiredEnv are asked for.
CfgKeys == {"SMTP_HOST", "SMTP_FROM", "SMTP_USER", "MCP_API_KEY"}

\* The caller is at top level (scope undefined) or at the start of fn in
\* runWithAgent(scope, fn).
InitCfg ==
    /\ \E w \in CfgWorlds : file = w.file /\ procEnv = w.env
    /\ agentsConfig = NullConfig
    /\ boot = "init"
    /\ \E scope \in {undefined, coo, dev} :
        store = [c \in Ctx |-> IF c = 0 /\ scope # undefined THEN StoreOf(scope) ELSE NoStore]
    /\ req = [r \in Reqs |-> [pc |-> "idle"]]
    /\ api = [op |-> "start"]

\* What every call records: the identity bound when it was made.
CfgCall(op) == [op |-> op, scope |-> getCurrentAgentId(0)]

CfgGetEnv(key) ==
    /\ api.op = "start"
    /\ api' = CfgCall("getEnv") @@ [key |-> key, result |-> getEnv(0, key)]
    /\ agentsConfig' = CacheAfterGetEnv(getCurrentAgentId(0))
    /\ UNCHANGED <<file, procEnv, boot, store, req>>

CfgGetRequiredEnv(key) ==
    /\ api.op = "start"
    /\ api' = CfgCall("getRequiredEnv")
              @@ [key |-> key, env |-> getEnv(0, key), result |-> getRequiredEnv(0, key)]
    /\ agentsConfig' = CacheAfterGetEnv(getCurrentAgentId(0))
    /\ UNCHANGED <<file, procEnv, boot, store, req>>

CfgGetServerConfig ==
    /\ api.op = "start"
    /\ api' = CfgCall("getServerConfig") @@ [result |-> getServerConfig(0)]
    /\ agentsConfig' = CacheAfterGetEnv(getCurrentAgentId(0))
    /\ UNCHANGED <<file, procEnv, boot, store, req>>

CfgGetEmailConfig ==
    /\ api.op = "start"
    /\ api' = CfgCall("getEmailConfig") @@ [result |-> getEmailConfig(0)]
    /\ agentsConfig' = CacheAfterGetEnv(getCurrentAgentId(0))
    /\ UNCHANGED <<file, procEnv, boot, store, req>>

CfgGetImapConfig ==
    /\ api.op = "start"
    /\ api' = CfgCall("getImapConfig") @@ [result |-> getImapConfig(0)]
    /\ agentsConfig' = CacheAfterGetEnv(getCurrentAgentId(0))
    /\ UNCHANGED <<file, procEnv, boot, store, req>>

NextCfg ==
    \/ \E key \in CfgKeys : CfgGetEnv(key)
    \/ \E key \in CfgKeys : CfgGetRequiredEnv(key)
    \/ CfgGetServerConfig
    \/ CfgGetEmailConfig
    \/ CfgGetImapConfig

SpecCfg == InitCfg /\ [][NextCfg]_vars

-----------------------------------------------------------------------------
(* list_emails and imap.listMessages over mailboxes of every size *)

\* An optional numeric argument of a tool call.
NoArg == [given |-> FALSE]
Arg(n) == [given |-> TRUE, n |-> n]

\* arg || dflt for a numeric argument: undefined and 0 give the default.
OrDefault(arg, dflt) == IF arg.given /\ arg.n # 0 THEN arg.n ELSE dflt

\* The default limit of list_emails.
DefaultLimit == 20

Max(a, b) == IF a >= b THEN a ELSE b

\* The uid of the message with sequence number i (uids grow with arrival).
UidOf(i) == 100 + 2 * i

\* client.fetch(`${start}:${end}`) on a mailbox of total messages: the
\* messages whose sequence number is in the range, oldest first.
Fetch(total, start, end) ==
    [k \in 1..(IF end > total THEN total - start + 1 ELSE end - start + 1) |->
        UidOf(start + k - 1)]

Reverse(seq) == [k \in 1..Len(seq) |-> seq[Len(seq) - k + 1]]

\* listMessages(config, mailbox, limit, offset) on a mailbox of total
\* messages: the uids of the entries returned (if (end < 1) can never fire).
listMessages(total, limit, offset) ==
    IF total = 0 THEN << >>
    ELSE LET end == Max(1, total - offset)
             start == Max(1, end - limit + 1)
         IN IF end < 1 THEN << >> ELSE Reverse(Fetch(total, start, end))

\* The mailbox holds any number of messages up to MaxMessages.
InitList ==
    /\ file = NoFile
    /\ procEnv = EmptyObj
    /\ agentsConfig = NullConfig
    /\ boot = "init"
    /\ store = [c \in Ctx |-> NoStore]
    /\ req = [r \in Reqs |-> [pc |-> "idle"]]
    /\ \E total \in 0..MaxMessages : api = [op |-> "mailbox", total |-> total]

\* The arguments list_emails is called with: omitted, 0 or a count.
ListArgs == {NoArg} \cup {Arg(n) : n \in 0..(MaxMessages + 1)}

\* list_emails({limit, offset}) on the mailbox.
ListEmails(limit, offset) ==
    /\ api.op = "mailbox"
    /\ api' = [op |-> "list_emails", total |-> api.total,
               limit |-> OrDefault(limit, DefaultLimit), offset |-> OrDefault(offset, 0),
               result |-> listMessages(api.total, OrDefault(limit, DefaultLimit),
                                       OrDefault(offset, 0))]
    /\ UNCHANGED <<file, procEnv, agentsConfig, boot, store, req>>

NextList == \E limit, offset \in ListArgs : ListEmails(limit, offset)

SpecList == InitList /\ [][NextList]_vars

-----------------------------------------------------------------------------
(* Claims checked under SpecApi *)

\* The loaded credentials register pairwise distinct API keys.
KeysDistinct(agents) ==
    \A i, j \in 1..Len(agents) :
        i # j => BufferFrom(agents[i].fields["apiKey"]) # BufferFrom(agents[j].fields["apiKey"])

\* The ids of the registered agents whose key has exactly the bytes of k.
Holders(agents, k) ==
    {agents[i].id : i \in {j \in 1..Len(agents) :
                              BufferFrom(agents[j].fields["apiKey"]) = BufferFrom(k)}}

\* C4 (as claimed): getAgentEnv(agentId, "apiKey") is absent for every agent
\* id and every loaded credentials file, a file whose shared block has an
\* "apiKey" entry included.
C4_ApiKeyNeverReturned ==
    (api.op = "getAgentEnv" /\ api.key = "apiKey" /\ ~agentsConfig.isNull)
        => api.result = undefined

\* C4 witness: getAgentEnv(coo, "apiKey") returned the shared block's
\* "apiKey" entry.
C4_Witness ==
    /\ api.op = "getAgentEnv" /\ api.key = "apiKey" /\ api.agentId = coo
    /\ ~agentsConfig.isNull
    /\ "apiKey" \in DOMAIN agentsConfig.shared
    /\ api.result = agentsConfig.shared["apiKey"]

\* C5: with pairwise distinct registered keys, resolveAgentByApiKey returns
\* the id of the agent whose key has exactly the candidate's bytes, and null
\* for a candidate that equals no registered key (a proper prefix or an
\* extension of one included).
C5_ResolveExactKey ==
    (api.op = "resolveAgentByApiKey" /\ ~agentsConfig.isNull
     /\ KeysDistinct(agentsConfig.agents))
        => /\ \A a \in Holders(agentsConfig.agents, api.apiKey) : api.result = a
           /\ Holders(agentsConfig.agents, api.apiKey) = {} => api.result = null

IsProperPrefix(p, k) == Len(p) < Len(k) /\ \A i \in 1..Len(p) : p[i] = k[i]

\* C5 witness: the second agent's key resolves to the second agent although
\* the first agent's key is a proper, non-empty prefix of it.
C5_Witness ==
    /\ api.op = "resolveAgentByApiKey"
    /\ ~agentsConfig.isNull
    /\ Len(agentsConfig.agents) = 2
    /\ api.result = dev
    /\ agentsConfig.agents[1].fields["apiKey"] # << >>
    /\ IsProperPrefix(agentsConfig.agents[1].fields["apiKey"], api.apiKey)

\* What the three sources hold for a setting, read off the loaded file and
\* the process environment.
OwnOverride(agentId, key) ==
    IF HasAgent(agentsConfig.agents, agentId)
    THEN Get(AgentOf(agentsConfig.agents, agentId), key) ELSE undefined
SharedDefault(key) ==
    IF agentsConfig.hasShared THEN Get(agentsConfig.shared, key) ELSE undefined
EnvValue(key) ==
    IF key \in DOMAIN procEnv /\ procEnv[key] # << >> THEN procEnv[key] ELSE undefined

\* Agent override, else shared default, else process environment, else absent.
Resolved(agentId, key) ==
    IF OwnOverride(agentId, key) # undefined THEN OwnOverride(agentId, key)
    ELSE IF SharedDefault(key) # undefined THEN SharedDefault(key)
    ELSE EnvValue(key)

\* C6: inside runWithAgent(a, ...), getEnv(X) for a setting X is a's own
\* override if set, else the shared default, else the process-environment
\* value (an empty string counting as absent), else absent.
C6_ThreeTierResolution ==
    (api.op = "getEnv" /\ api.scope # undefined /\ api.key # "apiKey"
     /\ ~agentsConfig.isNull)
        => api.result = Resolved(api.scope, api.key)

\* C6 witness: in coo's scope, with no override of coo, the shared default
\* is returned although the process environment sets the key too.
C6_Witness ==
    /\ api.op = "getEnv" /\ api.scope = coo /\ api.key = TierKey
    /\ ~agentsConfig.isNull
    /\ OwnOverride(coo, TierKey) = undefined
    /\ SharedDefault(TierKey) = <<"shared.host">>
    /\ EnvValue(TierKey) = <<"env.host">>
    /\ api.result = <<"shared.host">>

\* The static key of single-key mode: MCP_API_KEY of the process environment.
StaticKey == EnvValue("MCP_API_KEY")

\* C9: in single static key mode (no agents, MCP_API_KEY set) authenticate
\* calls next if and only if the header is a string with exactly the bytes of
\* MCP_API_KEY; every other request is answered 401.
C9_StaticKeyExact ==
    (api.op = "authenticate" /\ ~agentsConfig.isNull /\ Len(agentsConfig.agents) = 0
     /\ StaticKey # undefined)
        => /\ ~api.result.threw
           /\ api.result.nextCalls = 1
                <=> (api.header.type = "string"
                     /\ BufferFrom(api.header.value) = BufferFrom(StaticKey))
           /\ api.result.nextCalls = 0 <=> api.result.response = Unauthorized

\* C9 witness: the static key "ab" lets the header "ab" through.
C9_Witness ==
    /\ api.op = "authenticate" /\ ~agentsConfig.isNull /\ Len(agentsConfig.agents) = 0
    /\ StaticKey = <<"a", "b">>
    /\ api.header = StringHeader(<<"a", "b">>)
    /\ api.result.nextCalls = 1

-----------------------------------------------------------------------------
(* Claims checked under Spec *)

\* The request on slot r is inside transport.handleRequest.
InHandleRequest(r) ==
    req[r].pc \in {"dispatch", "fetching", "posting", "sending", "building", "appending",
                   "responded"}

\* C1: in every interleaving of requests, each getCurrentAgentId() call made
\* inside a runWithAgent scope (before and after each suspension) returned
\* the id that scope was entered with, never another scope's.
C1_ScopesIsolated ==
    \A r \in Reqs : store[r].bound => req[r].seen \subseteq {req[r].agentId}

\* C1 witness: two scopes with different ids are suspended together, each
\* after calls of getCurrentAgentId() on both sides of a suspension.
C1_Witness ==
    \E r1, r2 \in Reqs :
        /\ store[r1].bound /\ store[r2].bound
        /\ req[r1].agentId = coo /\ req[r2].agentId = dev
        /\ req[r1].pc = "posting" /\ req[r2].pc = "building"
        /\ req[r1].seen = {coo} /\ req[r2].seen = {dev}

\* The email and IMAP configuration of agent a, from a's overrides, the
\* shared defaults and the process environment.
EmailConfigFor(a) ==
    [threw |-> FALSE,
     host |-> Resolved(a, "SMTP_HOST"),
     port |-> parseInt(Nullish(Resolved(a, "SMTP_PORT"), <<"5", "8", "7">>)),
     from |-> Nullish(Resolved(a, "SMTP_FROM"), Resolved(a, "SMTP_USER")),
     user |-> Resolved(a, "SMTP_USER"),
     pass |-> Resolved(a, "SMTP_PASS")]
ImapConfigFor(a) ==
    [threw |-> FALSE,
     host |-> Resolved(a, "IMAP_HOST"),
     port |-> parseInt(Nullish(Resolved(a, "IMAP_PORT"), <<"9", "9", "3">>)),
     user |-> Resolved(a, "IMAP_USER"),
     pass |-> Resolved(a, "IMAP_PASS"),
     tls |-> Nullish(Resolved(a, "IMAP_TLS"), <<"true">>) # <<"false">>]

\* C2: under any interleaving, every getEmailConfig() / getImapConfig()
\* result computed inside a request bound to an agent is the configuration
\* of that request's own agent.
C2_ConfigIsolated ==
    \A r \in Reqs :
        Truthy(req[r].agentId) =>
            /\ req[r].emailCfg \in {NoCfg, EmailConfigFor(req[r].agentId)}
            /\ req[r].imapCfg \in {NoCfg, ImapConfigFor(req[r].agentId)}

\* C2 witness: two requests of different agents are in flight together, each
\* holding both configurations, which differ between the two.
C2_Witness ==
    \E r1, r2 \in Reqs :
        /\ req[r1].agentId = coo /\ req[r2].agentId = dev
        /\ req[r1].pc = "building" /\ req[r2].pc = "building"
        /\ req[r1].emailCfg.from = <<"coo@biz.com">>
        /\ req[r2].emailCfg.from = <<"shared@biz.com">>
        /\ req[r1].imapCfg.user = <<"shared@biz.com">>
        /\ req[r2].imapCfg.user = <<"dev@biz.com">>

\* The returned object carries body content.
HasBody(result) == "text" \in DOMAIN result \/ "html" \in DOMAIN result

\* C3 (as claimed): whenever gate_email returns body content, the delivery of
\* the audit record to the sink has been attempted and has completed.
C3_AuditBeforeBody ==
    \A r \in Reqs :
        (req[r].pc = "responded" /\ req[r].tool = "gate_email" /\ HasBody(req[r].result))
            => req[r].posted.made /\ req[r].audit = "completed"

\* C3 witness: gate_email returned body content of a fetched message with no
\* POST to the log sink made, the caller's COMMS_TOKEN resolving to nothing.
C3_Witness ==
    \E r \in Reqs :
        /\ req[r].pc = "responded" /\ req[r].tool = "gate_email"
        /\ req[r].read_body /\ HasBody(req[r].result)
        /\ ~req[r].posted.made /\ req[r].audit = "none"
        /\ req[r].result["logged"] = FALSE

\* The credentials are loaded and define at least one agent.
MultiAgentMode == ~agentsConfig.isNull /\ Len(agentsConfig.agents) > 0

\* The agents whose key has exactly the bytes of the header h.
HeaderHolders(h) ==
    IF h.type = "string" THEN Holders(agentsConfig.agents, h.value) ELSE {}

\* C7: in multi-agent mode a request whose key matches no agent is answered
\* 401, and a request whose key matches agent g is let through and handled,
\* to its end, with getCurrentAgentId() = g.
C7_BoundToResolvedAgent ==
    \A r \in Reqs :
        (MultiAgentMode /\ req[r].pc # "idle") =>
            /\ HeaderHolders(req[r].header) = {}
                 => req[r].pc = "rejected" /\ req[r].auth = Unauthorized
            /\ \A g \in HeaderHolders(req[r].header) :
                 /\ req[r].pc \notin {"rejected", "failed500"}
                 /\ req[r].agentId = g
                 /\ req[r].seen \subseteq {g}
                 /\ InHandleRequest(r) => store[r] = StoreOf(g)

\* C7 witness: the request carrying dev's key has resumed twice inside
\* handleRequest and saw dev each time.
C7_Witness ==
    \E r \in Reqs :
        /\ MultiAgentMode
        /\ req[r].header = StringHeader(<<"a", "b">>)
        /\ req[r].pc = "building"
        /\ req[r].seen = {dev}

\* C8: when agents or a static MCP_API_KEY are configured, a request whose
\* x-api-key header is absent or not a single string is answered 401
\* Unauthorized and never reaches the route handler.
C8_KeyHeaderRequired ==
    \A r \in Reqs :
        (/\ req[r].pc # "idle"
         /\ ~agentsConfig.isNull
         /\ Len(agentsConfig.agents) > 0 \/ StaticKey # undefined
         /\ req[r].header.type # "string")
            => req[r].pc = "rejected" /\ req[r].auth = Unauthorized

\* C8 witness: in single-key mode a repeated (array) header is rejected.
C8_Witness ==
    \E r \in Reqs :
        /\ ~agentsConfig.isNull /\ Len(agentsConfig.agents) = 0 /\ StaticKey # undefined
        /\ req[r].header.type = "object"
        /\ req[r].pc = "rejected"

\* C10: with no agents and no static MCP_API_KEY every request is let
\* through, whatever its header, and is handled with no identity bound.
C10_OpenMode ==
    \A r \in Reqs :
        (/\ req[r].pc # "idle"
         /\ ~agentsConfig.isNull
         /\ Len(agentsConfig.agents) = 0 /\ StaticKey = undefined)
            => /\ req[r].pc \notin {"rejected", "failed500"}
               /\ req[r].auth = NoResponse
               /\ req[r].agentId = undefined
               /\ ~store[r].bound
               /\ req[r].seen \subseteq {undefined}

\* C10 witness: a request with a repeated header and one with no header are
\* both being handled, with no identity.
C10_Witness ==
    \E r1, r2 \in Reqs :
        /\ ~agentsConfig.isNull /\ Len(agentsConfig.agents) = 0 /\ StaticKey = undefined
        /\ req[r1].header.type = "object" /\ req[r2].header = NoHeader
        /\ req[r1].pc = "sending" /\ req[r2].pc = "sending"
        /\ req[r1].seen = {undefined}

-----------------------------------------------------------------------------
(* Claims on authenticate's rejections, checked under SpecApi *)

\* The cause of a rejection by authenticate of header h under the loaded
\* credentials: the header is missing, malformed (not one string), or a
\* string that is not the expected key.
RejectionCause(h) ==
    IF h.type = "undefined" THEN "missing"
    ELSE IF h.type # "string" THEN "malformed"
    ELSE "mismatch"

\* C11: every rejection by authenticate, whatever its cause (missing,
\* malformed or mismatching key) and mode (multi-agent or single key), is the
\* same response: status 401, error code -32001 and the one fixed message.
C11_UniformRejection ==
    (api.op = "authenticate" /\ ~api.result.threw /\ api.result.nextCalls = 0)
        => /\ api.result.response.status = 401
           /\ api.result.response.body.error.code = -32001
           /\ api.result.response.body.error.message
                = <<"Unauthorized: Invalid or missing API key">>
           /\ api.result.response = Unauthorized

\* C11 witness: in multi-agent mode a string key that no agent holds was
\* rejected (the other causes and the single-key mode are reached as well).
C11_Witness ==
    /\ api.op = "authenticate" /\ ~api.result.threw /\ api.result.nextCalls = 0
    /\ ~agentsConfig.isNull /\ Len(agentsConfig.agents) > 0
    /\ RejectionCause(api.header) = "mismatch"
    /\ api.header.value = <<"a", "b">>

-----------------------------------------------------------------------------
(* Claims on the credentials load, checked under SpecApi *)

\* The last call was one of the Credential Store operations.
StoreCall == api.op \in {"hasAgents", "resolveAgentByApiKey", "getAgentEnv"}

\* What the last Credential Store call has to return when it works on the
\* configuration c: hasAgents, the holder of the key, override else default.
AnswersFrom(c) ==
    CASE api.op = "hasAgents" ->
            ~api.result.threw /\ api.result.value = (Len(c.agents) > 0)
      [] api.op = "resolveAgentByApiKey" ->
            /\ Holders(c.agents, api.apiKey) = {} => api.result = null
            /\ Holders(c.agents, api.apiKey) # {}
                 => api.result \in Holders(c.agents, api.apiKey)
      [] api.op = "getAgentEnv" ->
            api.key # "apiKey" =>
                api.result =
                    IF HasAgent(c.agents, api.agentId)
                       /\ api.key \in DOMAIN AgentOf(c.agents, api.agentId)
                    THEN AgentOf(c.agents, api.agentId)[api.key]
                    ELSE IF api.key \in DOMAIN c.shared THEN c.shared[api.key]
                    ELSE undefined

\* C18: once a load has succeeded, every Credential Store call works on that
\* same configuration and does not read the file, and no step of the process
\* or change of the file on disk alters the loaded configuration.
C18_LoadMemoized ==
    /\ [](StoreCall /\ ~api.before.isNull
            => ~api.read /\ agentsConfig = api.before /\ AnswersFrom(api.before))
    /\ [][~agentsConfig.isNull => agentsConfig' = agentsConfig]_vars

\* C18 witness: agents.json was rewritten after the load (zed's key is "b"
\* now), and resolveAgentByApiKey still answers from the loaded
\* configuration, in which coo holds "b".
C18_Witness ==
    /\ api.op = "resolveAgentByApiKey" /\ ~api.before.isNull
    /\ file \in ChangedFiles
    /\ api.apiKey = <<"b">>
    /\ api.result = coo

\* C19: loading with no agents.json (ENOENT) is not an error: it yields the
\* configuration with no agents and no shared defaults, and hasAgents() is
\* false; hasAgents() is true exactly when the loaded agents are not none.
C19_AbsentFileIsEmpty ==
    api.op = "hasAgents" =>
        /\ (api.before.isNull /\ file.kind = "ENOENT")
              => /\ ~api.result.threw
                 /\ api.result.value = FALSE
                 /\ ~agentsConfig.isNull
                 /\ agentsConfig.agents = << >>
                 /\ DOMAIN agentsConfig.shared = {}
        /\ ~api.result.threw => api.result.value = (Len(agentsConfig.agents) > 0)

\* C19 witness: hasAgents() was called first thing with no agents.json and
\* returned false.
C19_Witness ==
    /\ api.op = "hasAgents" /\ api.before.isNull /\ file.kind = "ENOENT"
    /\ ~api.result.threw /\ api.result.value = FALSE

\* C20 (as claimed): a load that fails for another reason than an absent
\* file raises a descriptive error, caches nothing, and is not retried: the
\* call after a failed load does not read the file again.
C20_FailedLoadNotRetried ==
    StoreCall =>
        /\ api.loadFailed
             => /\ agentsConfig.isNull
                /\ api.op = "hasAgents" => api.result.threw
        /\ api.afterFailure => ~api.read

\* C20 witness: hasAgents() threw on a damaged agents.json; the file was
\* then repaired, and the next call read it and loaded it.
C20_Witness ==
    /\ api.op = "hasAgents" /\ api.afterFailure /\ api.read
    /\ ~api.result.threw /\ api.result.value = TRUE
    /\ ~agentsConfig.isNull

-----------------------------------------------------------------------------
(* Claims on the server's requests, checked under Spec *)

\* authenticate called next for the request on slot r.
NextCalled(r) == req[r].pc \notin {"idle", "rejected", "failed500"}

\* The outcomes, of the three the claim names, that authenticate's call for
\* the request on slot r ended in.
AuthOutcomes(r) ==
    {o \in {"rejected", "anonymous", "authenticated"} :
        \/ o = "rejected" /\ req[r].auth.status = 401 /\ ~NextCalled(r)
        \/ o = "anonymous" /\ req[r].auth = NoResponse /\ NextCalled(r)
             /\ req[r].agentId = undefined
        \/ o = "authenticated" /\ req[r].auth = NoResponse /\ NextCalled(r)
             /\ req[r].agentId # undefined}

\* C12 (as claimed): every call of authenticate ends in exactly one of the
\* outcomes rejected (401 sent, next not called), allowed anonymously and
\* allowed authenticated; never in none of them.
C12_ExactlyOneOutcome ==
    \A r \in Reqs : req[r].pc # "idle" => Cardinality(AuthOutcomes(r)) = 1

\* C12 witness: with an agents.json that does not parse, authenticate threw
\* out of hasAgents(): it sent no response and did not call next.
C12_Witness ==
    \E r \in Reqs :
        /\ file = BadJson /\ boot = "listening"
        /\ req[r].pc = "failed500"
        /\ req[r].auth = NoResponse
        /\ AuthOutcomes(r) = {}

\* The request on slot r is a gate_email call that has answered after its
\* message was fetched.
GateAnswered(r) ==
    req[r].pc = "responded" /\ req[r].tool = "gate_email" /\ req[r].email # NoMail

\* C13: once the message is fetched, gate_email answers with the message's
\* metadata and no error whatever became of the audit delivery (sink answer
\* not 2xx, transport error, no COMMS_TOKEN); logged is true exactly when a
\* delivery was made and the sink answered with success.
C13_SinkFailureTolerated ==
    \A r \in Reqs :
        GateAnswered(r) =>
            /\ "error" \notin DOMAIN req[r].result
            /\ {"uid", "from", "date", "logged"} \subseteq DOMAIN req[r].result
            /\ req[r].result["uid"] = req[r].email.uid
            /\ req[r].result["from"] = req[r].email.from
            /\ req[r].result["date"] = req[r].email.date
            /\ req[r].result["logged"] = (req[r].posted.made /\ req[r].sink = "ok")
            /\ ~req[r].posted.made => req[r].sink = "none"

\* C13 witness: one call answered with logged = false after the fetch to the
\* sink threw, while another answered with logged = true.
C13_Witness ==
    \E r1, r2 \in Reqs :
        /\ GateAnswered(r1) /\ req[r1].posted.made /\ req[r1].sink = "threw"
        /\ req[r1].result["logged"] = FALSE
        /\ GateAnswered(r2) /\ req[r2].sink = "ok" /\ req[r2].result["logged"] = TRUE

\* The words (tokens) of the string fields of a returned object.
ReturnedWords(result) ==
    UNION {{result[k][i] : i \in 1..Len(result[k])} :
              k \in DOMAIN result \cap {"from", "date", "email_log_channel", "text", "html"}}

\* C16: what a successful gate_email call returns holds neither the subject
\* nor the message-id of the message, with or without read_body: only uid,
\* from, date, logged and the channel name, plus the wrapped body fields when
\* read_body is set.
C16_NoSubjectNoMessageId ==
    \A r \in Reqs :
        GateAnswered(r) =>
            /\ DOMAIN req[r].result
                 \subseteq {"uid", "from", "date", "logged", "email_log_channel"}
                           \cup (IF req[r].read_body THEN {"text", "html"} ELSE {})
            /\ req[r].result["uid"] = req[r].email.uid
            /\ req[r].result["from"] = req[r].email.from
            /\ req[r].result["date"] = req[r].email.date
            /\ req[r].result["email_log_channel"] = <<"email-log">>
            /\ \A w \in ReturnedWords(req[r].result) :
                 <<w>> \notin {req[r].email.subject, req[r].email.messageId}

\* C16 witness: a call with read_body answered with the text; the audit text
\* posted to the sink carried the subject line, the answer does not.
C16_Witness ==
    \E r \in Reqs :
        /\ GateAnswered(r) /\ req[r].read_body
        /\ DOMAIN req[r].result
             = {"uid", "from", "date", "logged", "email_log_channel", "text"}
        /\ req[r].posted.made
        /\ \E i \in 1..Len(req[r].posted.message) :
             <<req[r].posted.message[i]>> = req[r].email.subject

\* The request on slot r is running inside a runWithAgent scope.
InScope(r) == InHandleRequest(r) /\ Truthy(req[r].agentId)

\* C17: in every reachable state getCurrentAgentId() is absent in every
\* async context that is outside a runWithAgent scope: the top-level context,
\* a request not yet inside its scope or handled with no identity, and a
\* slot whose request has completed, whatever scopes are suspended meanwhile.
C17_AbsentOutsideScope ==
    /\ getCurrentAgentId(0) = undefined
    /\ \A r \in Reqs : ~InScope(r) => getCurrentAgentId(r) = undefined

\* C17 witness: one request is suspended inside coo's scope while another,
\* authenticated as dev, has not entered its scope yet and sees no identity.
C17_Witness ==
    \E r1, r2 \in Reqs :
        /\ InScope(r1) /\ req[r1].pc = "posting" /\ getCurrentAgentId(r1) = coo
        /\ req[r2].pc = "connecting" /\ req[r2].agentId = dev
        /\ getCurrentAgentId(r2) = undefined
        /\ getCurrentAgentId(0) = undefined

-----------------------------------------------------------------------------
(* Claims on the returned body, checked under SpecBody *)

\* The positions of s where a boundary marker written with the brackets
\* open and close starts: the opening form, the closing form.
OpeningAt(s, open, close) ==
    {i \in 1..Len(s) : /\ i + 2 <= Len(s)
                       /\ s[i] = open /\ s[i + 1] \in UntrustedWords /\ s[i + 2] = close}
ClosingAt(s, open, close) ==
    {i \in 1..Len(s) : /\ i + 3 <= Len(s)
                       /\ s[i] = open /\ s[i + 1] = "/" /\ s[i + 2] \in UntrustedWords
                       /\ s[i + 3] = close}

\* The positions of s where the placeholder [TAG_STRIPPED] starts.
PlaceholderAt(s) ==
    {i \in 1..Len(s) : /\ i + 2 <= Len(s)
                       /\ s[i] = "[" /\ s[i + 1] = "TAG_STRIPPED" /\ s[i + 2] = "]"}

\* The body fields (text, html) of the fetched message that hold content.
BodyFields(email) == {f \in {"text", "html"} : email[f] # undefined /\ email[f] # << >>}

\* What lies between the wrapping pair of a returned body field.
Interior(returned) == SubSeq(returned, 5, Len(returned) - 5)

\* C14: with read_body, every angle-form marker of the fetched body (closing
\* or opening, any letter case, any number of them) is replaced by the
\* placeholder, and the returned text holds exactly one opening and one
\* closing angle marker: the fresh pair around the whole body.
C14_AngleMarkersReplaced ==
    (api.op = "responseData" /\ api.read_body) =>
        \A f \in BodyFields(api.email) :
            /\ f \in DOMAIN api.result
            /\ SubSeq(api.result[f], 1, 4) = <<"<", "untrusted", ">", "\n">>
            /\ SubSeq(api.result[f], Len(api.result[f]) - 4, Len(api.result[f]))
                 = <<"\n", "<", "/", "untrusted", ">">>
            /\ OpeningAt(api.result[f], "<", ">") = {1}
            /\ ClosingAt(api.result[f], "<", ">") = {Len(api.result[f]) - 3}
            /\ Cardinality(PlaceholderAt(Interior(api.result[f])))
                 >= Cardinality(OpeningAt(api.email[f], "<", ">"))
                    + Cardinality(ClosingAt(api.email[f], "<", ">"))

\* C14 witness: a text with the closing marker twice, in two letter cases,
\* around other content was returned.
C14_Witness ==
    /\ api.op = "responseData" /\ api.read_body
    /\ api.email.text = <<"<", "/", "untrusted", ">", "x", "<", "/", "Untrusted", ">">>
    /\ Interior(api.result["text"])
         = <<"[", "TAG_STRIPPED", "]", "x", "[", "TAG_STRIPPED", "]">>

\* C15 (as claimed): with read_body, none of the six marker forms (opening
\* and closing, in angle, square-bracket and brace variant) survives between
\* the wrapping pair of a returned body.
C15_AllVariantsNeutralized ==
    (api.op = "responseData" /\ api.read_body) =>
        \A f \in BodyFields(api.email) :
            \A pair \in {<<"<", ">">>, <<"[", "]">>, <<"{", "}">>} :
                /\ OpeningAt(Interior(api.result[f]), pair[1], pair[2]) = {}
                /\ ClosingAt(Interior(api.result[f]), pair[1], pair[2]) = {}

\* C15 witness: the text "[untrusted]" was returned as it was fetched.
C15_Witness ==
    /\ api.op = "responseData" /\ api.read_body
    /\ api.email.text = <<"[", "untrusted", "]">>
    /\ Interior(api.result["text"]) = <<"[", "untrusted", "]">>

-----------------------------------------------------------------------------
(* Claims on the accessors, checked under SpecCfg *)

\* What the credentials file declares (nothing when it is absent).
Declared ==
    IF file.kind = "JSON" THEN file
    ELSE [agents |-> << >>, hasShared |-> TRUE, shared |-> EmptyObj]
FileOverride(agentId, key) ==
    IF HasAgent(Declared.agents, agentId)
    THEN Get(AgentOf(Declared.agents, agentId), key) ELSE undefined
FileShared(key) == IF Declared.hasShared THEN Get(Declared.shared, key) ELSE undefined

\* What a setting resolves to for the identity scope: own override, shared
\* default, process environment inside a scope; process environment outside.
ResolvedFor(scope, key) ==
    IF scope = undefined THEN EnvValue(key)
    ELSE IF FileOverride(scope, key) # undefined THEN FileOverride(scope, key)
    ELSE IF FileShared(key) # undefined THEN FileShared(key)
    ELSE EnvValue(key)

\* word occurs in the message msg, token for token.
Names(msg, word) ==
    \E i \in 1..Len(msg) :
        i + Len(word) - 1 <= Len(msg) /\ SubSeq(msg, i, i + Len(word) - 1) = word

\* A missing-config error naming the key, and the agent when one is bound.
MissingConfig(e, scope, key) ==
    /\ IsThrow(e)
    /\ Names(e, <<"Missing required config: ", key>>)
    /\ scope # undefined => Names(e, scope)
    /\ scope = undefined => \A a \in {coo, dev} : ~Names(e, a)

\* C21: getRequiredEnv(key) fails with a missing-config error naming the
\* key, and the bound agent id when an identity is bound, whenever
\* getEnv(key) is absent or the empty string; whenever getEnv(key) yields a
\* non-empty value, getRequiredEnv(key) returns that same value.
C21_RequiredFollowsGetEnv ==
    api.op = "getRequiredEnv" =>
        /\ api.env \in {undefined, << >>} => MissingConfig(api.result, api.scope, api.key)
        /\ api.env \notin {undefined, << >>} => api.result = api.env

\* The case of C21: a setting coo overrides with the empty string is a value
\* for getEnv and missing for getRequiredEnv.
C21_Witness ==
    /\ api.op = "getRequiredEnv"
    /\ api.scope = coo
    /\ api.env = << >>
    /\ MissingConfig(api.result, coo, api.key)

\* C21 as stated: failure exactly when getEnv(key) is absent, the value
\* returned whenever getEnv(key) yields one.
C21_AsStated ==
    api.op = "getRequiredEnv" =>
        /\ api.env = undefined => MissingConfig(api.result, api.scope, api.key)
        /\ api.env # undefined => api.result = api.env

\* The port setting each derived accessor reads, and its default.
PortKeyOf(op) ==
    IF op = "getServerConfig" THEN "MCP_PORT"
    ELSE IF op = "getEmailConfig" THEN "SMTP_PORT" ELSE "IMAP_PORT"
DefaultPortOf(op) ==
    IF op = "getServerConfig" THEN <<"3", "0", "0", "0">>
    ELSE IF op = "getEmailConfig" THEN <<"5", "8", "7">> ELSE <<"9", "9", "3">>
ConfiguredPort(op, scope) == Nullish(ResolvedFor(scope, PortKeyOf(op)), DefaultPortOf(op))
Accessors == {"getServerConfig", "getEmailConfig", "getImapConfig"}

\* C22: every derived accessor (getEmailConfig, getImapConfig,
\* getServerConfig) fails with an error when its configured port does not
\* parse as an integer in 1..65535, and never returns a configuration
\* holding an invalid or non-numeric port.
C22_PortsValidated ==
    api.op \in Accessors =>
        /\ InvalidPort(parseInt(ConfiguredPort(api.op, api.scope))) => api.result.threw
        /\ ~api.result.threw => ~InvalidPort(api.result.port)

\* The case of C22: getEmailConfig returned a configuration whose port is
\* NaN or outside 1..65535.
C22_Witness ==
    /\ api.op = "getEmailConfig"
    /\ ~api.result.threw
    /\ InvalidPort(api.result.port)

\* A setting written in decimal digits only, and the number it denotes.
Digits == <<"0", "1", "2", "3", "4", "5", "6", "7", "8", "9">>
PureDigits(str) ==
    Len(str) > 0 /\ \A i \in 1..Len(str) : \E d \in 1..10 : Digits[d] = str[i]
RECURSIVE DecimalOf(_)
DecimalOf(str) ==
    IF str = << >> THEN 0
    ELSE 10 * DecimalOf(SubSeq(str, 1, Len(str) - 1))
         + (CHOOSE d \in 1..10 : Digits[d] = str[Len(str)]) - 1

\* C23: getServerConfig() with MCP_PORT unset returns port 3000 and, with
\* MCP_HOST unset, the loopback host 127.0.0.1; with MCP_PORT set to a valid
\* value it returns that port; with MCP_PORT "0", "70000" or any number
\* outside 1..65535 it fails with an invalid-port error.
C23_ServerPort ==
    api.op = "getServerConfig" =>
        LET port == ResolvedFor(api.scope, "MCP_PORT")
            host == ResolvedFor(api.scope, "MCP_HOST")
        IN  /\ port = undefined => ~api.result.threw /\ api.result.port = Num(3000)
            /\ ~api.result.threw /\ host = undefined => api.result.host = <<"127.0.0.1">>
            /\ port # undefined /\ PureDigits(port) /\ DecimalOf(port) \in 1..65535 =>
                    ~api.result.threw /\ api.result.port = Num(DecimalOf(port))
            /\ port # undefined /\ PureDigits(port) /\ DecimalOf(port) \notin 1..65535 =>
                    /\ api.result.threw
                    /\ Names(api.result.error, <<"Invalid MCP_PORT: ">> \o port)

\* The case of C23: MCP_PORT=70000 in the process environment, rejected.
C23_Witness ==
    /\ api.op = "getServerConfig"
    /\ api.scope = undefined
    /\ EnvValue("MCP_PORT") = <<"7", "0", "0", "0", "0">>
    /\ api.result.threw

\* A required setting is missing when it resolves to nothing or to the
\* empty string.
Missing(val) == val \in {undefined, << >>}

\* C24: inside runWithAgent(a, ...), getEmailConfig().from is a's resolved
\* SMTP_FROM when one resolves (an empty string of the credentials file
\* included) and otherwise a's resolved SMTP_USER; the call fails with a
\* missing-config error exactly when SMTP_HOST is missing, or SMTP_FROM does
\* not resolve and SMTP_USER is missing; host is a's resolved SMTP_HOST.
C24_EmailSender ==
    api.op = "getEmailConfig" /\ api.scope # undefined =>
        LET host == ResolvedFor(api.scope, "SMTP_HOST")
            from == ResolvedFor(api.scope, "SMTP_FROM")
            user == ResolvedFor(api.scope, "SMTP_USER")
        IN  /\ api.result.threw <=> (Missing(host) \/ (from = undefined /\ Missing(user)))
            /\ api.result.threw =>
                    MissingConfig(api.result.error, api.scope,
                                  IF Missing(host) THEN "SMTP_HOST" ELSE "SMTP_USER")
            /\ ~api.result.threw =>
                    /\ api.result.from = (IF from # undefined THEN from ELSE user)
                    /\ api.result.host = host

\* The case of C24: coo overrides SMTP_FROM and takes SMTP_HOST from the
\* shared block.
C24_Witness ==
    /\ api.op = "getEmailConfig"
    /\ api.scope = coo
    /\ FileOverride(coo, "SMTP_FROM") = <<"coo@biz.com">>
    /\ FileOverride(coo, "SMTP_HOST") = undefined
    /\ ~api.result.threw
    /\ api.result.from = <<"coo@biz.com">>
    /\ api.result.host = <<"smtp.biz.com">>

\* C24 as stated, for worlds where SMTP_HOST resolves to a host: the call
\* fails only when neither SMTP_FROM nor SMTP_USER resolves.
C24_AsStated ==
    api.op = "getEmailConfig" /\ api.scope # undefined
    /\ ~Missing(ResolvedFor(api.scope, "SMTP_HOST")) =>
        LET from == ResolvedFor(api.scope, "SMTP_FROM")
            user == ResolvedFor(api.scope, "SMTP_USER")
        IN  /\ api.result.threw => from = undefined /\ user = undefined
            /\ ~api.result.threw =>
                    /\ api.result.from = (IF from # undefined THEN from ELSE user)
                    /\ api.result.host = ResolvedFor(api.scope, "SMTP_HOST")

\* C30: outside every runWithAgent scope getEnv(key) is the process
\* environment's value alone, never an agent's override nor a shared
\* default of the credentials file; so are the static key, the host and the
\* port getServerConfig() hands to authenticate and to the listener.
C30_EnvironmentOnlyOutsideScope ==
    api.op # "start" /\ api.scope = undefined =>
        /\ agentsConfig.isNull
        /\ api.op = "getEnv" => api.result = EnvValue(api.key)
        /\ api.op = "getServerConfig" /\ ~api.result.threw =>
                /\ api.result.apiKey = EnvValue("MCP_API_KEY")
                /\ api.result.host = Nullish(EnvValue("MCP_HOST"), <<"127.0.0.1">>)
                /\ api.result.port = parseInt(Nullish(EnvValue("MCP_PORT"), <<"3", "0", "0", "0">>))

\* The case of C30: the credentials file declares a shared MCP_API_KEY, the
\* environment none, and getEnv("MCP_API_KEY") at top level is absent.
C30_Witness ==
    /\ api.op = "getEnv"
    /\ api.scope = undefined
    /\ api.key = "MCP_API_KEY"
    /\ FileShared("MCP_API_KEY") = <<"k-shared">>
    /\ EnvValue("MCP_API_KEY") = undefined
    /\ api.result = undefined

-----------------------------------------------------------------------------
(* Claims on gate_email and on authentication, checked under Spec *)

\* The audit text msg names who, and nobody else, as the agent.
NamesAgent(msg, who) ==
    /\ \E i \in 1..Len(msg) : msg[i] = " agent="
    /\ \A i \in 1..Len(msg) :
        msg[i] = " agent=" =>
            /\ i + Len(who) + 1 <= Len(msg)
            /\ SubSeq(msg, i + 1, i + Len(who)) = who
            /\ msg[i + Len(who) + 1] = "\n"

\* C25: under any interleaving of requests, the audit record posted for a
\* request bound to agent g names agent g and goes to the sink URL, with the
\* token, that resolve for g; the record of a request with no bound identity
\* names "unknown" and uses the process environment's URL and token.
C25_AuditNamesCaller ==
    \A r \in Reqs :
        req[r].posted.made =>
            /\ NamesAgent(req[r].posted.message, Nullish(req[r].agentId, <<"unknown">>))
            /\ req[r].posted.url =
                    Nullish(ResolvedFor(req[r].agentId, "COMMS_URL"), <<"http://127.0.0.1:9754">>)
                    \o <<"/api/channels/email-log/messages">>
            /\ ResolvedFor(req[r].agentId, "COMMS_TOKEN") # undefined
            /\ req[r].posted.authorization =
                    <<"Bearer ">> \o ResolvedFor(req[r].agentId, "COMMS_TOKEN")

\* The case of C25: coo's record is posted, naming coo, while a request
\* bound to dev is suspended on its own message fetch.
C25_Witness ==
    \E r, q \in Reqs :
        /\ req[r].agentId = coo
        /\ req[r].posted.made
        /\ NamesAgent(req[r].posted.message, coo)
        /\ req[q].agentId = dev
        /\ req[q].pc = "fetching"

\* The fields of a gate_email answer that are not body content.
MetadataFields == {"uid", "from", "date", "logged", "email_log_channel"}

\* C26: gate_email returns body content (a text or html field) only when
\* read_body is true; when read_body is false or omitted the answer carries
\* the metadata fields only, for every message and every sink outcome.
C26_BodyOnlyOnRequest ==
    \A r \in Reqs :
        req[r].pc = "responded" /\ req[r].tool = "gate_email" =>
            /\ HasBody(req[r].result) => req[r].read_body
            /\ GateAnswered(r) /\ ~req[r].read_body => DOMAIN req[r].result = MetadataFields

\* The case of C26: a message with a text body, its audit record delivered,
\* answered without the body because read_body was not set.
C26_Witness ==
    \E r \in Reqs :
        /\ GateAnswered(r)
        /\ ~req[r].read_body
        /\ Truthy(req[r].email.text)
        /\ req[r].sink = "ok"
        /\ DOMAIN req[r].result = MetadataFields

\* gate_email answered without a message: getImapConfig() or
\* imap.getMessage failed.
GateFailed(r) ==
    req[r].pc = "responded" /\ req[r].tool = "gate_email" /\ req[r].email = NoMail

\* C27: if the message fetch or the resolution of the IMAP configuration
\* fails in gate_email, no audit record is sent to the sink and the answer
\* holds an error field and nothing else: no metadata, no body content.
C27_FailureAnswersErrorOnly ==
    \A r \in Reqs :
        GateFailed(r) =>
            /\ ~req[r].posted.made
            /\ req[r].audit = "none"
            /\ DOMAIN req[r].result = {"error"}
            /\ req[r].result["error"] # << >>

\* The case of C27: a call whose IMAP configuration resolved and whose
\* message fetch failed.
C27_Witness ==
    \E r \in Reqs :
        /\ GateFailed(r)
        /\ ~req[r].imapCfg.threw
        /\ req[r].result = [error |-> <<"Message not found">>]

\* C28: once loaded, the credentials configuration is read-only: no step of
\* the server (authenticate, runWithAgent, getEnv, getRequiredEnv, the
\* derived accessors called by the tools) changes the loaded agents or the
\* shared mapping.
C28_LoadedConfigReadOnly ==
    [][~agentsConfig.isNull =>
            /\ ~agentsConfig'.isNull
            /\ agentsConfig'.agents = agentsConfig.agents
            /\ agentsConfig'.hasShared = agentsConfig.hasShared
            /\ agentsConfig'.shared = agentsConfig.shared]_vars

\* The case of C28: coo's request went through authenticate, runWithAgent,
\* getEmailConfig and getImapConfig, and the configuration is as loaded.
C28_Witness ==
    \E r \in Reqs :
        /\ req[r].pc = "building"
        /\ req[r].agentId = coo
        /\ ~agentsConfig.isNull
        /\ agentsConfig.agents = file.agents
        /\ agentsConfig.shared = file.shared

\* The header of request r carries exactly the bytes of MCP_API_KEY.
CarriesStaticKey(r) ==
    /\ StaticKey # undefined
    /\ req[r].header.type = "string"
    /\ BufferFrom(req[r].header.value) = BufferFrom(StaticKey)

\* C29: in multi-agent mode the static MCP_API_KEY grants nothing: a request
\* whose key equals MCP_API_KEY and matches no agent's key is rejected, and
\* an identity is bound only by a match against an agent's key; without
\* agents (single-key mode) a request that authenticate lets through has no
\* identity bound, at any point of its handling.
C29_StaticKeyGrantsNothing ==
    \A r \in Reqs :
        req[r].pc # "idle" /\ ~agentsConfig.isNull =>
            /\ MultiAgentMode /\ CarriesStaticKey(r) /\ HeaderHolders(req[r].header) = {}
                    => req[r].pc = "rejected" /\ req[r].auth = Unauthorized
            /\ MultiAgentMode /\ (req[r].agentId # undefined \/ store[r].bound)
                    => req[r].agentId \in HeaderHolders(req[r].header)
            /\ ~MultiAgentMode
                    => /\ req[r].agentId = undefined
                       /\ ~store[r].bound
                       /\ req[r].seen \subseteq {undefined}

\* The case of C29: with agents configured and MCP_API_KEY = "b", the
\* request carrying "b" is answered 401.
C29_Witness ==
    \E r \in Reqs :
        /\ MultiAgentMode
        /\ CarriesStaticKey(r)
        /\ HeaderHolders(req[r].header) = {}
        /\ req[r].pc = "rejected"

\* send_email answered with an error and nothing else.
SendError(r) == DOMAIN req[r].result = {"error"}

\* C31: in send_email the save to the Sent folder is attempted only after
\* the SMTP send has succeeded, and is best-effort: whether the IMAP
\* configuration, the build of the raw message or the append fails, the
\* answer is the result of the send; a failed send (or a failed email
\* configuration) answers with an error and attempts no save.
C31_SaveToSentBestEffort ==
    \A r \in Reqs :
        req[r].tool = "send_email" =>
            /\ req[r].pc = "sending" => req[r].save = "none" /\ req[r].imapCfg = NoCfg
            /\ req[r].save # "none" => ~req[r].emailCfg.threw /\ req[r].imapCfg # NoCfg
            /\ req[r].pc = "responded" =>
                    /\ req[r].save # "none" => req[r].result = SendResult
                    /\ req[r].save = "none" => SendError(r) /\ req[r].imapCfg = NoCfg
                    /\ req[r].save \in {"none", "configFailed", "buildFailed",
                                        "appendFailed", "saved"}
                    /\ req[r].save = "configFailed" <=> req[r].imapCfg.threw

\* The case of C31: the mail was sent, the append to the Sent folder failed,
\* and the answer is the result of the send.
C31_Witness ==
    \E r \in Reqs :
        /\ req[r].tool = "send_email"
        /\ req[r].pc = "responded"
        /\ req[r].save = "appendFailed"
        /\ req[r].result = SendResult

-----------------------------------------------------------------------------
(* Claim on list_emails, checked under SpecList *)

\* The uids of the messages numbered hi down to lo, newest first.
NewestFirst(lo, hi) == [k \in 1..(hi - lo + 1) |-> UidOf(hi - k + 1)]

\* C32: listMessages(mailbox, limit, offset) on a mailbox of total messages
\* skips the offset newest messages and returns at most limit of the others,
\* newest first, that is the messages numbered
\* max(1, total-offset-limit+1) .. total-offset; it returns an empty list
\* when total is 0 or offset >= total.
C32_ListRange ==
    api.op = "list_emails" =>
        IF api.total = 0 \/ api.offset >= api.total
        THEN api.result = << >>
        ELSE api.result = NewestFirst(Max(1, api.total - api.offset - api.limit + 1),
                                      api.total - api.offset)

\* The case of C32: every message of the mailbox is skipped and the oldest
\* one is returned all the same.
C32_Witness ==
    /\ api.op = "list_emails"
    /\ api.total > 0
    /\ api.offset >= api.total
    /\ api.result = <<UidOf(1)>>

=============================================================================
